---- MODULE Spec2Model ----
(***************************************************************************)
(* A model of two graph rewrites of onnxruntime:                           *)
(*   - MatmulTransposeFusion::ApplyImpl (matmul_transpose_fusion.cc), the   *)
(*     pass that folds a last-two-axes Transpose into a (Fused)MatMul and   *)
(*     interchanges Transpose->Cast into Cast->Transpose;                   *)
(*   - ModuleGradientGraphBuilder (module_gradient_graph_builder.cc), the   *)
(*     assembler of the gradient graph;                                     *)
(* and of the helper that the optimizer tests build their graphs with      *)
(* (graph_gen_helper.h, qdq_transformer_test.cc).                           *)
(* The Graph class itself (nodes, edges, producer/consumer lookups) is not  *)
(* part of the sources at hand; it is modelled from the data model of the   *)
(* specification (sections 3 and 4.1).                                      *)
(***************************************************************************)
EXTENDS Integers, Sequences, FiniteSets, TLC

\* ------------------------------------------------------------------ bounds
\* Largest number of nodes of a forward graph built before the pass runs.
MaxNodes == 4
\* Largest rank of a perm attribute / of a statically known input shape.
MaxRank == 4

\* ------------------------------------------------------------- conventions
\* "no node": node indices are positive.
Null == 0
\* NodeArg::Shape() == nullptr: the rank of the value is not known.
NoShape == -1
\* In the place of a node index: the search for the node ended with the
\* exception of an ORT_ENFORCE.
Thrown == -2

\* Names of the values produced by the nodes of the forward graph, by the
\* order in which the nodes are built.
ValName == <<"v1", "v2", "v3", "v4", "v5", "v6", "v7", "v8">>

Range(s) == {s[i] : i \in DOMAIN s}

\* An empty attribute map.
NoAttrs == [a \in {} |-> ""]

\* ---------------------------------------------------------- Graph substrate
\* A graph is a record
\*   nodes   : function from the indices of the live nodes to node records
\*             [op, ins, outs, attrs, ver, ep]
\*   edges   : set of <<src, dst, dstSlot>> (every node has one output)
\*   outputs : the declared graph outputs (value names)
\*   args    : value name -> [rank, elem]   (the NodeArgs of the graph)
\*   next    : the next free node index (indices are never reused)

Live(g) == DOMAIN g.nodes

\* Graph::GetProducerNode: the live nodes that have v as an output.
Producers(g, v) == {n \in Live(g) : v \in Range(g.nodes[n].outs)}

GetProducerNode(g, v) ==
  IF Producers(g, v) = {} THEN Null ELSE CHOOSE n \in Producers(g, v) : TRUE

\* Graph::GetConsumerNodes: the live nodes that reference v as an input
\* (a node that references v twice is one consumer).
GetConsumerNodes(g, v) == {n \in Live(g) : v \in Range(g.nodes[n].ins)}

\* Node::GetOutputEdgesCount
GetOutputEdgesCount(g, n) == Cardinality({e \in g.edges : e[1] = n})

\* Graph::GetNodeOutputsInGraphOutputs
GetNodeOutputsInGraphOutputs(g, n) == Range(g.nodes[n].outs) \cap g.outputs

\* Graph::GetOrCreateNodeArg: an existing NodeArg is returned as it is.
GetOrCreateNodeArg(g, name, type) ==
  IF name \in DOMAIN g.args THEN g
  ELSE [g EXCEPT !.args = [a \in DOMAIN g.args \cup {name} |->
                             IF a = name THEN type ELSE g.args[a]]]

\* Graph::AddNode: the node gets the next index.  Edges are not made here:
\* they are made by Resolve, or moved by the graph_utils helpers.
AddNode(g, node) ==
  LET idx == g.next
  IN [g EXCEPT !.nodes = [n \in Live(g) \cup {idx} |->
                            IF n = idx THEN node ELSE g.nodes[n]],
               !.next = idx + 1]

\* Graph::Resolve, as far as edges go: one edge from the producer of every
\* input of every live node.
Resolve(g) ==
  [g EXCEPT !.edges =
     UNION {UNION {{<<p, n, s>> : p \in Producers(g, g.nodes[n].ins[s])} :
                     s \in DOMAIN g.nodes[n].ins} : n \in Live(g)}]

\* graph_utils::RemoveNodeOutputEdges
RemoveNodeOutputEdges(g, n) == [g EXCEPT !.edges = {e \in @ : e[1] # n}]

\* Graph::RemoveNode precondition: the node exists and has no output edge.
CanRemoveNode(g, n) == n \in Live(g) => GetOutputEdgesCount(g, n) = 0

\* Graph::RemoveNode: drops the input edges and releases the node; an index
\* that names no node is left alone.
RemoveNode(g, n) ==
  IF n \notin Live(g) THEN g
  ELSE [g EXCEPT !.nodes = [m \in Live(g) \ {n} |-> g.nodes[m]],
                 !.edges = {e \in @ : e[2] # n /\ e[1] # n}]

\* graph_utils::FinalizeNodeFusion(graph, first, second): first takes over
\* the outputs and the output edges of second, and second is removed.
FinalizeNodeFusion(g, first, second) ==
  LET g1 == RemoveNodeOutputEdges(g, first)
      g2 == [g1 EXCEPT !.nodes[first].outs = g1.nodes[second].outs]
      moved == {<<first, e[2], e[3]>> : e \in {x \in g2.edges : x[1] = second}}
      g3 == [g2 EXCEPT !.edges = {e \in @ : e[1] # second} \cup moved]
  IN RemoveNode(g3, second)

\* ------------------------------------------------- matmul_transpose_fusion.cc
\* The execution providers the pass is registered for.
CompatibleProviders == {"cpu"}

\* graph_utils::IsSupportedOptypeVersionAndDomain (the domain follows the
\* operator name: "MatMul" is an ONNX operator, "FusedMatMul" a kMSDomain one).
IsSupportedOptypeVersionAndDomain(node, op, versions) ==
  node.op = op /\ node.ver \in versions

\* graph_utils::IsSupportedProvider
IsSupportedProvider(node) ==
  CompatibleProviders = {} \/ node.ep \in CompatibleProviders

\* The filter at the head of the loop body of ApplyImpl.
IsFusionCandidate(node) ==
  /\ \/ IsSupportedOptypeVersionAndDomain(node, "MatMul", {9, 13})
     \/ IsSupportedOptypeVersionAndDomain(node, "FusedMatMul", {1})
  /\ IsSupportedProvider(node)

\* std::iota(perms.rbegin(), perms.rend(), 0): the reversed axis order.
ReversedPerm(rank) == [i \in 1..rank |-> rank - i]

\* GetTransposePerms: the perm attribute if present, otherwise the reversed
\* axes of the input's shape; no perms when the input has no shape.
\* enforce is the ORT_ENFORCE of line 14 (the node has exactly one input):
\* when it fails the function throws.
GetTransposePerms(g, n) ==
  LET node == g.nodes[n]
      shape == g.args[node.ins[1]].rank
  IN IF Len(node.ins) # 1
       THEN [ok |-> FALSE, perms |-> <<>>, enforce |-> FALSE]
     ELSE IF "perm" \in DOMAIN node.attrs
       THEN [ok |-> TRUE, perms |-> node.attrs.perm, enforce |-> TRUE]
     ELSE IF shape = NoShape
       THEN [ok |-> FALSE, perms |-> <<>>, enforce |-> TRUE]
     ELSE [ok |-> TRUE, perms |-> ReversedPerm(shape), enforce |-> TRUE]

\* The loop "for (i = 0; i < rank - 2; i++) if (perms[i] != i) ... break"
\* (perms is 0-based in the code, 1-based here).
RECURSIVE LeadingAxesKept(_, _, _)
LeadingAxesKept(perms, i, rank) ==
  IF i >= rank - 2 THEN TRUE
  ELSE IF perms[i + 1] # i THEN FALSE
  ELSE LeadingAxesKept(perms, i + 1, rank)

\* A variant that looks at the last two axes only.
IsTransOnLastTwoOnly(perms) ==
  perms[Len(perms) - 1] = Len(perms) - 1 /\ perms[Len(perms)] = Len(perms) - 2

\* is_trans_on_last_two_dims, for rank >= 2.
IsTransOnLastTwoDims(perms) ==
  LET rank == Len(perms)
  IN IF LeadingAxesKept(perms, 0, rank)
       THEN perms[rank - 1] = rank - 1 /\ perms[rank] = rank - 2
     ELSE FALSE

\* GetTransposeNodeFromOutput: the producer of v if it is a Transpose of the
\* last two axes that feeds no graph output, else Null; Thrown when
\* GetTransposePerms throws.
GetTransposeNodeFromOutput(g, v) ==
  LET trans_node == GetProducerNode(g, v)
  IN IF trans_node = Null \/ g.nodes[trans_node].op # "Transpose" THEN Null
     ELSE IF GetNodeOutputsInGraphOutputs(g, trans_node) # {} THEN Null
     ELSE LET p == GetTransposePerms(g, trans_node)
          IN IF ~p.enforce THEN Thrown
             ELSE IF ~p.ok THEN Null
             ELSE IF Len(p.perms) < 2 THEN Null
             ELSE IF ~IsTransOnLastTwoDims(p.perms) THEN Null
             ELSE trans_node

\* count_map is a function from value names to size_t counts.  A count is
\* kept as the two's-complement residue of the 64-bit value, so that 0 - 1
\* is -1, which stands for 2^64 - 1 (SIZE_MAX); comparison with 0 is exact.
MapPut(m, k, v) == [a \in DOMAIN m \cup {k} |-> IF a = k THEN v ELSE m[a]]

\* UpdateConsumerCount: [ok, count, map]; ok is the ORT_ENFORCE.
UpdateConsumerCount(g, target, count_map) ==
  LET node_consumers == GetConsumerNodes(g, target)
  IN IF node_consumers = {}
       THEN [ok |-> FALSE, count |-> 0, map |-> count_map]
     ELSE IF target \notin DOMAIN count_map
       THEN [ok |-> TRUE, count |-> Cardinality(node_consumers) - 1,
             map |-> MapPut(count_map, target, Cardinality(node_consumers) - 1)]
     ELSE [ok |-> TRUE, count |-> count_map[target] - 1,
           map |-> MapPut(count_map, target, count_map[target] - 1)]

\* A variant without the test of the output edges of the Transpose.
CastInterchangeAnyFanOut(g, cast) ==
  LET transpose == GetTransposeNodeFromOutput(g, g.nodes[cast].ins[1])
  IN IF transpose = Null \/ transpose = Thrown THEN transpose
     ELSE IF GetOutputEdgesCount(g, cast) # 1 THEN Null
     ELSE transpose

\* The gate of GetTransposeNodeFromCast: the Transpose behind the Cast, when
\* the Cast and the Transpose have one output edge each; else Null.  The
\* exception of GetTransposeNodeFromOutput (line 124) goes through.
CastInterchangeMatch(g, cast) ==
  LET transpose == GetTransposeNodeFromOutput(g, g.nodes[cast].ins[1])
  IN IF transpose = Null \/ transpose = Thrown THEN transpose
     ELSE IF GetOutputEdgesCount(g, cast) # 1 THEN Null
     ELSE IF GetOutputEdgesCount(g, transpose) # 1 THEN Null
     ELSE transpose

\* The body of GetTransposeNodeFromCast once the Transpose behind the Cast is
\* known (lines 128-166): [graph, trans, erased]; trans is the new Transpose,
\* or Null when the gate did not match and Thrown when it threw (graph
\* untouched).
InterchangeCastTranspose(g, cast, transpose) ==
  IF transpose = Null \/ transpose = Thrown
    THEN [graph |-> g, trans |-> transpose, erased |-> <<>>]
  ELSE
    LET cast_output == g.nodes[cast].outs[1]
        transpose_input == g.nodes[transpose].ins[1]
        new_type == [rank |-> g.args[transpose_input].rank,
                     elem |-> g.args[cast_output].elem]
        new_cast_output == cast_output \o "_transformed"
        g1 == GetOrCreateNodeArg(g, new_cast_output, new_type)
        new_cast == [op |-> g.nodes[cast].op, ins |-> <<transpose_input>>,
                     outs |-> <<new_cast_output>>,
                     attrs |-> g.nodes[cast].attrs,
                     ver |-> g.nodes[cast].ver, ep |-> ""]
        g2 == AddNode(g1, new_cast)
        new_transpose == [op |-> g.nodes[transpose].op,
                          ins |-> <<new_cast_output>>,
                          outs |-> <<cast_output>>,
                          attrs |-> g.nodes[transpose].attrs,
                          ver |-> g.nodes[transpose].ver, ep |-> ""]
        g3 == AddNode(g2, new_transpose)
        g5 == RemoveNodeOutputEdges(RemoveNodeOutputEdges(g3, cast), transpose)
    IN [graph |-> RemoveNode(RemoveNode(g5, cast), transpose),
        trans |-> g.next + 1,
        erased |-> <<[node |-> cast, edges |-> GetOutputEdgesCount(g5, cast)],
                     [node |-> transpose,
                      edges |-> GetOutputEdgesCount(g5, transpose)]>>]

\* GetTransposeNodeFromCast: the gate, then the interchange.
GetTransposeNodeFromCast(g, cast) ==
  InterchangeCastTranspose(g, cast, CastInterchangeMatch(g, cast))

\* One of the two Cast attempts of ApplyImpl (lines 283-294): the
\* interchange is tried when the producer of the operand is a Cast.
\* [graph, trans, erased, tried]
TryCastProducer(g, producer) ==
  IF producer # Null /\ g.nodes[producer].op = "Cast"
    THEN [tried |-> TRUE, res |-> GetTransposeNodeFromCast(g, producer)]
  ELSE [tried |-> FALSE, res |-> [graph |-> g, trans |-> Null, erased |-> <<>>]]

\* The result of the two attempts, the right one made on the graph the left
\* one left.
CastAttempts(lc, rc) ==
  [graph |-> rc.res.graph, left |-> lc.res.trans, right |-> rc.res.trans,
   erased |-> lc.res.erased \o rc.res.erased,
   tried |-> (IF lc.tried THEN <<"left">> ELSE <<>>)
             \o (IF rc.tried THEN <<"right">> ELSE <<>>)]

\* The right attempt is made only if the left one gave no Transpose (and did
\* not throw).
AfterLeftCast(right_input, lc) ==
  IF lc.res.trans # Null
    THEN CastAttempts(lc, [tried |-> FALSE,
                           res |-> [graph |-> lc.res.graph, trans |-> Null,
                                    erased |-> <<>>]])
  ELSE CastAttempts(lc, TryCastProducer(lc.res.graph,
                                        GetProducerNode(lc.res.graph, right_input)))

\* A variant that makes the Cast attempts whatever the direct matches gave.
AfterDirectMatchAlwaysCast(g, idx, left0, right0) ==
  AfterLeftCast(g.nodes[idx].ins[2],
                TryCastProducer(g, GetProducerNode(g, g.nodes[idx].ins[1])))

\* The direct matches left0 and right0 of the two operands are taken if
\* there is one; only when neither operand matches, the interchanges.  The
\* search of the right operand (line 280) is not reached when the one of the
\* left operand (line 277) throws.
AfterDirectMatch(g, idx, left0, right0) ==
  IF left0 = Thrown
    THEN [graph |-> g, left |-> Thrown, right |-> Null, erased |-> <<>>,
          tried |-> <<>>]
  ELSE IF left0 # Null \/ right0 # Null
    THEN [graph |-> g, left |-> left0, right |-> right0, erased |-> <<>>,
          tried |-> <<>>]
  ELSE AfterLeftCast(g.nodes[idx].ins[2],
                     TryCastProducer(g, GetProducerNode(g, g.nodes[idx].ins[1])))

\* The transposes found for the two operands of a visited matmul (lines
\* 277-294 of ApplyImpl).  [graph, left, right, erased, tried]; tried lists
\* the operands whose Cast producer was handed to GetTransposeNodeFromCast.
FindTransposes(g, idx) ==
  AfterDirectMatch(g, idx, GetTransposeNodeFromOutput(g, g.nodes[idx].ins[1]),
                   GetTransposeNodeFromOutput(g, g.nodes[idx].ins[2]))

\* static_cast<bool>(attribute.i())
AttrBool(i) == i # 0

\* transpose_left ^= ... (bool XOR)
Xor(a, b) == a # b

\* The transA / transB / alpha written on the new node (lines 322-332).
\* node.GetAttributes().at(name) throws when the attribute is missing.
FusedAttrsOk(node) ==
  node.op = "FusedMatMul" => {"transA", "transB", "alpha"} \subseteq DOMAIN node.attrs

\* A variant that overwrites the flags of an already fused node.
FusedAttrsOverwrite(node, matched_left, matched_right) ==
  [transA |-> IF matched_left THEN 1 ELSE 0,
   transB |-> IF matched_right THEN 1 ELSE 0,
   alpha |-> IF node.op = "FusedMatMul" THEN node.attrs.alpha ELSE 1]

FusedAttrs(node, matched_left, matched_right) ==
  LET fused == node.op = "FusedMatMul"
      transpose_left == IF fused THEN Xor(matched_left, AttrBool(node.attrs.transA))
                        ELSE matched_left
      transpose_right == IF fused THEN Xor(matched_right, AttrBool(node.attrs.transB))
                         ELSE matched_right
      alpha == IF fused THEN node.attrs.alpha ELSE 1
  IN [transA |-> IF transpose_left THEN 1 ELSE 0,
      transB |-> IF transpose_right THEN 1 ELSE 0,
      alpha |-> alpha]

\* A variant that never queues a transpose for removal.
QueueNever(removed, count, n) == removed

\* removed_nodes.push_front(index) when the remaining count is zero.
QueueIfUnused(removed, count, n) == IF count = 0 THEN <<n>> \o removed ELSE removed

\* A variant that leaves the flag as it was.
ModifiedKept(mod) == mod

\* "modified = true" after a fusion (line 338).
ModifiedAfterFusion(mod) == TRUE

\* An iteration of the loop that rewrites nothing: the node is no candidate
\* ("skipped"), or no transpose was found ("nomatch").
VisitUnchanged(g, idx, counts, removed, mod, kind, tried) ==
  [graph |-> g, counts |-> counts, removed |-> removed, modified |-> mod,
   status |-> "ok",
   info |-> [node |-> idx, kind |-> kind, left |-> Null, right |-> Null,
             fused |-> Null, erased |-> <<>>, tried |-> tried, queued |-> <<>>]]

\* The two calls of UpdateConsumerCount (lines 300-312): [ok, count, map];
\* the second is not reached when the first one throws.
LeftCount(g, node, f, counts) ==
  IF f.left # Null THEN UpdateConsumerCount(g, node.ins[1], counts)
  ELSE [ok |-> TRUE, count |-> 1, map |-> counts]

RightCount(g, node, f, lu) ==
  IF f.right # Null /\ lu.ok THEN UpdateConsumerCount(g, node.ins[2], lu.map)
  ELSE [ok |-> TRUE, count |-> 1, map |-> lu.map]

QueueLeft(removed, f, lu) ==
  IF f.left # Null /\ lu.ok THEN QueueIfUnused(removed, lu.count, f.left)
  ELSE removed

QueueRight(removed, f, lu, ru) ==
  IF f.right # Null /\ lu.ok /\ ru.ok THEN QueueIfUnused(removed, ru.count, f.right)
  ELSE removed

\* Lines 314-338: the FusedMatMul node takes the place of the visited node.
\* g is the graph after the search f of the transposes, removed0 the deque
\* before this iteration and removed the deque after it, ok the outcome of
\* the enforces of UpdateConsumerCount.
FuseMatMul(g, idx, f, removed0, removed, mod, counts, ok) ==
  LET node == g.nodes[idx]
      left_input == IF f.left # Null THEN g.nodes[f.left].ins[1] ELSE node.ins[1]
      right_input == IF f.right # Null THEN g.nodes[f.right].ins[1] ELSE node.ins[2]
      matmul_node == [op |-> "FusedMatMul", ins |-> <<left_input, right_input>>,
                      outs |-> <<node.outs[1]>>, attrs |-> NoAttrs, ver |-> 1,
                      ep |-> ""]
      info == [node |-> idx, kind |-> "fused", left |-> f.left, right |-> f.right,
               fused |-> g.next, erased |-> f.erased, tried |-> f.tried,
               queued |-> SubSeq(removed, 1, Len(removed) - Len(removed0))]
  IN IF ~ok
       THEN [graph |-> g, counts |-> counts, removed |-> removed,
             modified |-> mod, status |-> "failed",
             info |-> [info EXCEPT !.kind = "enforce", !.fused = Null]]
     ELSE IF ~FusedAttrsOk(node)
       THEN [graph |-> AddNode(g, matmul_node), counts |-> counts,
             removed |-> removed, modified |-> mod, status |-> "failed",
             info |-> [info EXCEPT !.kind = "missing_attr"]]
     ELSE [graph |-> FinalizeNodeFusion(
                       [AddNode(g, matmul_node) EXCEPT
                          !.nodes[g.next].attrs =
                            FusedAttrs(node, f.left # Null, f.right # Null),
                          !.nodes[g.next].ep = node.ep],
                       g.next, idx),
           counts |-> counts, removed |-> removed,
           modified |-> ModifiedAfterFusion(mod), status |-> "ok", info |-> info]

VisitCounted(idx, f, removed, mod, lu, ru) ==
  FuseMatMul(f.graph, idx, f, removed,
             QueueRight(QueueLeft(removed, f, lu), f, lu, ru), mod, ru.map,
             lu.ok /\ ru.ok)

VisitLeftCounted(idx, f, removed, mod, lu) ==
  VisitCounted(idx, f, removed, mod, lu,
               RightCount(f.graph, f.graph.nodes[idx], f, lu))

\* Lines 296-298: "continue" when neither operand has a transpose.  When the
\* search of the transposes threw (lines 277-291), the pass ends with the
\* exception, the graph as the search left it.
VisitFound(g, idx, counts, removed, mod, f) ==
  IF f.left = Thrown \/ f.right = Thrown
    THEN [graph |-> f.graph, counts |-> counts, removed |-> removed,
          modified |-> mod, status |-> "failed",
          info |-> [node |-> idx, kind |-> "enforce", left |-> Null,
                    right |-> Null, fused |-> Null, erased |-> f.erased,
                    tried |-> f.tried, queued |-> <<>>]]
  ELSE IF f.left = Null /\ f.right = Null
    THEN VisitUnchanged(g, idx, counts, removed, mod, "nomatch", f.tried)
  ELSE VisitLeftCounted(idx, f, removed, mod,
                        LeftCount(f.graph, f.graph.nodes[idx], f, counts))

\* One iteration of the loop of ApplyImpl on the snapshot node idx.
\* [graph, counts, removed, modified, status, info]; status is "ok" or
\* "failed" (an ORT_ENFORCE or an exception ended the pass).
VisitStep(g, idx, counts, removed, mod) ==
  IF ~IsFusionCandidate(g.nodes[idx])
    THEN VisitUnchanged(g, idx, counts, removed, mod, "skipped", <<>>)
  ELSE VisitFound(g, idx, counts, removed, mod, FindTransposes(g, idx))

\* The loop after the traversal (lines 342-344): RemoveNode on every queued
\* index, front to back.  [graph, status, erased]; RemoveNode enforces that
\* a node it erases has no output edge.
RECURSIVE EraseQueuedNodes(_, _, _)
EraseQueuedNodes(g, removed, log) ==
  IF removed = <<>> THEN [graph |-> g, status |-> "ok", erased |-> log]
  ELSE LET n == Head(removed)
           entry == [node |-> n,
                     edges |-> IF n \in Live(g) THEN GetOutputEdgesCount(g, n)
                               ELSE 0,
                     live |-> n \in Live(g)]
       IN IF ~CanRemoveNode(g, n)
            THEN [graph |-> g, status |-> "failed", erased |-> Append(log, entry)]
          ELSE EraseQueuedNodes(RemoveNode(g, n), Tail(removed), Append(log, entry))

\* GraphViewer::GetNodesInTopologicalOrder: producers before consumers; among
\* the nodes that are ready, the one with the smallest index first.
RECURSIVE TopoFrom(_, _, _)
TopoFrom(g, done, acc) ==
  LET ready == {n \in Live(g) \ done :
                  \A v \in Range(g.nodes[n].ins) : Producers(g, v) \subseteq done}
  IN IF ready = {} THEN acc
     ELSE LET n == CHOOSE m \in ready : \A k \in ready : m <= k
          IN TopoFrom(g, done \cup {n}, Append(acc, n))

GetNodesInTopologicalOrder(g) == TopoFrom(g, {}, <<>>)

\* ------------------------------------------------------------------- state
VARIABLES
  graph,           \* the Graph the pass works on
  pc,              \* "build", "ready", "visit", "done", "failed", "crashed"
  order,           \* node_topology_list: the snapshot of the traversal
  pos,             \* position of the loop in the snapshot
  removed_nodes,   \* std::deque<NodeIndex> removed_nodes
  consumer_count,  \* std::unordered_map<NodeArg*, size_t> consumer_count
  modified,        \* bool& modified
  entry,           \* the graph and the flag on entry of the running pass
  rerun,           \* the running pass works on the result of an earlier pass
  last,            \* what the last loop iteration did
  erased,          \* the erasures of the loop that ends the pass
  \* ModuleGradientGraphBuilder
  model_,                \* the forward model saved by Initialize
  gradient_model_,       \* the model a Build works on
  config_,               \* ModuleGradientGraphBuilderConfiguration
  training_graph_info_,  \* TrainingGraphInfo
  bpc,                   \* position of the builder in Initialize / Build
  bstatus,               \* how the last call of the builder ended
  builds,                \* number of Build calls made
  differentiated,        \* the graph as BuildGradientGraph left it
  model_istream,         \* the model handed to Initialize
  input_shapes_ptr,      \* the shapes handed to the last Build
  model_str,             \* what GetGradientModel returned since the last Build
  inits                  \* number of Initialize calls made

pass_vars == <<graph, pc, order, pos, removed_nodes, consumer_count, modified,
               entry, rerun, last, erased>>

builder_vars == <<model_, gradient_model_, config_, training_graph_info_, bpc,
                  bstatus, builds, differentiated, model_istream,
                  input_shapes_ptr, model_str, inits>>

vars == <<graph, pc, order, pos, removed_nodes, consumer_count, modified,
          entry, rerun, last, erased, model_, gradient_model_, config_,
          training_graph_info_, bpc, bstatus, builds, differentiated,
          model_istream, input_shapes_ptr, model_str, inits>>

NoInfo == [node |-> Null, kind |-> "none", left |-> Null, right |-> Null,
           fused |-> Null, erased |-> <<>>, tried |-> <<>>, queued |-> <<>>]

NoCounts == [a \in {} |-> 0]

\* ------------------------------------------- the pass as one call (ApplyImpl)
\* The loop of ApplyImpl from position i of the snapshot, and the erasures
\* that follow it: [graph, modified, status].
RECURSIVE ApplyLoop(_, _, _, _, _, _)
ApplyErasures(e, mod) == [graph |-> e.graph, modified |-> mod, status |-> e.status]

ApplyVisit(node_topology_list, i, r) ==
  IF r.status # "ok"
    THEN [graph |-> r.graph, modified |-> r.modified, status |-> "failed"]
  ELSE ApplyLoop(r.graph, node_topology_list, i + 1, r.counts, r.removed,
                 r.modified)

ApplyLoop(g, node_topology_list, i, counts, removed, mod) ==
  IF i > Len(node_topology_list)
    THEN ApplyErasures(EraseQueuedNodes(g, removed, <<>>), mod)
  ELSE ApplyVisit(node_topology_list, i,
                  VisitStep(g, node_topology_list[i], counts, removed, mod))

ApplyImpl(g, mod) ==
  ApplyLoop(g, GetNodesInTopologicalOrder(g), 1, NoCounts, <<>>, mod)

\* ------------------------------------------------ graphs of the builder
\* The graph of a Model carries, besides the fields above,
\*   inputs         : GetInputsIncludingInitializers(), in order
\*   initializers   : the names of the initialized tensors
\*   output_order   : GetOutputs(), in order (outputs is its range)
\*   name_generator : the counter of GenerateNodeArgName
\* and its NodeArgs carry the dims of the shape besides the rank.

\* Graph::GetNodeArg returns nullptr for a name the graph does not know.
NullArg == "nullptr"

GetNodeArg(g, name) == IF name \in DOMAIN g.args THEN name ELSE NullArg

GetOutputs(g) == g.output_order

SetOutputs(g, output_args) ==
  [g EXCEPT !.output_order = output_args, !.outputs = Range(output_args)]

SetInputs(g, input_args) == [g EXCEPT !.inputs = input_args]

\* Graph::GenerateNodeArgName: base_name if no NodeArg has it, else the first
\* base_name_token_<counter> that no NodeArg has.  [name, graph]
RECURSIVE GenerateNodeArgNameFrom(_, _, _)
GenerateNodeArgNameFrom(g, base_name, new_name) ==
  IF new_name \notin DOMAIN g.args THEN [name |-> new_name, graph |-> g]
  ELSE GenerateNodeArgNameFrom([g EXCEPT !.name_generator = @ + 1], base_name,
                               base_name \o "_token_" \o ToString(g.name_generator))

GenerateNodeArgName(g, base_name) == GenerateNodeArgNameFrom(g, base_name, base_name)

\* graph_utils::GetNodeOutputEdges(node, output_idx): the output edges of n
\* that carry its output output_idx.
GetNodeOutputEdges(g, n, output_idx) ==
  {e \in g.edges : e[1] = n /\ g.nodes[e[2]].ins[e[3]] = g.nodes[n].outs[output_idx]}

\* graph_utils::ReplaceDownstreamNodeInput: every output edge of node for
\* output_idx is replaced by an edge from replacement, and the input of its
\* destination becomes the output replacement_output_idx of replacement.
ReplaceDownstreamNodeInput(g, node, output_idx, replacement, replacement_output_idx) ==
  LET output_edges == GetNodeOutputEdges(g, node, output_idx)
      replacement_name == g.nodes[replacement].outs[replacement_output_idx]
  IN [g EXCEPT
        !.nodes = [n \in Live(g) |->
                     [g.nodes[n] EXCEPT !.ins =
                        [s \in DOMAIN g.nodes[n].ins |->
                           IF <<node, n, s>> \in output_edges THEN replacement_name
                           ELSE g.nodes[n].ins[s]]]],
        !.edges = (@ \ output_edges)
                    \cup {<<replacement, e[2], e[3]>> : e \in output_edges}]

\* graph_utils::GetNodeOutputIndexFromOutputName
GetNodeOutputIndexFromOutputName(node, name) ==
  CHOOSE i \in DOMAIN node.outs : node.outs[i] = name

\* GradientBuilderBase::GradientName and ExternalOutputName
GradientName(name) == name \o "_grad"

ExternalOutputName(name) == name \o "_external"

GradientNames(names) == [i \in DOMAIN names |-> GradientName(names[i])]

\* The elements of a sequence that satisfy membership in a set, in order.
RECURSIVE SeqFilter(_, _)
SeqFilter(s, keep) ==
  IF s = <<>> THEN <<>>
  ELSE IF Head(s) \in keep THEN <<Head(s)>> \o SeqFilter(Tail(s), keep)
  ELSE SeqFilter(Tail(s), keep)

Reverse(s) == [i \in 1..Len(s) |-> s[Len(s) + 1 - i]]

\* A sequence without its repetitions (first occurrences are kept).
RECURSIVE Dedup(_)
Dedup(s) ==
  IF s = <<>> THEN <<>>
  ELSE LET d == Dedup(SubSeq(s, 1, Len(s) - 1))
       IN IF s[Len(s)] \in Range(d) THEN d ELSE Append(d, s[Len(s)])

\* ------------------------------------------------- forward optimization
\* GraphTransformerManager{2}::ApplyTransformers with the fusion pass as the
\* registered transformer: the pass runs at most twice, and again only if
\* the run before modified the graph.  [graph, status]
ApplySecond(r2) ==
  IF r2.status # "ok" THEN [graph |-> r2.graph, status |-> "failed"]
  ELSE [graph |-> Resolve(r2.graph), status |-> "ok"]

ApplyFirst(r1) ==
  IF r1.status # "ok" THEN [graph |-> r1.graph, status |-> "failed"]
  ELSE IF ~r1.modified THEN [graph |-> Resolve(r1.graph), status |-> "ok"]
  ELSE ApplySecond(ApplyImpl(Resolve(r1.graph), FALSE))

ApplyTransformers(g) == ApplyFirst(ApplyImpl(g, FALSE))

\* ------------------------------------------------------- differentiation
\* GradientGraphBuilder (reverse mode).  The values reachable from a set of
\* values along the nodes, and the values from which a set is reachable.
RECURSIVE ForwardClosure(_, _)
ForwardClosure(g, S) ==
  LET new == S \cup UNION {Range(g.nodes[n].outs) :
                             n \in {m \in Live(g) : Range(g.nodes[m].ins) \cap S # {}}}
  IN IF new = S THEN S ELSE ForwardClosure(g, new)

RECURSIVE BackwardClosure(_, _)
BackwardClosure(g, S) ==
  LET new == S \cup UNION {Range(g.nodes[n].ins) :
                             n \in {m \in Live(g) : Range(g.nodes[m].outs) \cap S # {}}}
  IN IF new = S THEN S ELSE BackwardClosure(g, new)

\* The gradient node of the forward node n: it consumes the gradient of the
\* output of n and the inputs of n, and produces the gradient of every input
\* of n that depends on a value of X.
GradientNode(g, n, from_x) ==
  LET node == g.nodes[n]
      wanted == SeqFilter(node.ins, from_x)
  IN [op |-> node.op \o "Grad",
      ins |-> <<GradientName(node.outs[1])>> \o node.ins,
      outs |-> [i \in 1..Len(wanted) |-> GradientName(wanted[i])],
      attrs |-> node.attrs, ver |-> 1, ep |-> node.ep]

\* The NodeArgs of a node are created with the type of the forward value.
RECURSIVE CreateGradArgs(_, _)
CreateGradArgs(g, names) ==
  IF names = <<>> THEN g
  ELSE CreateGradArgs(GetOrCreateNodeArg(g, GradientName(Head(names)),
                                         g.args[Head(names)]), Tail(names))

\* The gradient nodes of the forward nodes of the list, in the order of the
\* list (the reverse of a topological order of the forward graph).
RECURSIVE AddGradientNodes(_, _, _, _)
AddGradientNodes(g, nodes, from_x, to_y) ==
  IF nodes = <<>> THEN g
  ELSE LET n == Head(nodes)
           node == g.nodes[n]
           on_path == /\ node.outs[1] \in to_y
                      /\ Range(node.ins) \cap from_x # {}
           g1 == CreateGradArgs(g, <<node.outs[1]>> \o SeqFilter(node.ins, from_x))
       IN IF on_path
            THEN AddGradientNodes(AddNode(g1, GradientNode(g, n, from_x)),
                                  Tail(nodes), from_x, to_y)
          ELSE AddGradientNodes(g, Tail(nodes), from_x, to_y)

\* GradientGraphBuilder::Build, first part: the gradient nodes of the forward
\* nodes that lie on a path from a value of x_names to a value of y_names.
AddGradientGraph(g, y_names, x_names) ==
  AddGradientNodes(g, Reverse(GetNodesInTopologicalOrder(g)),
                   ForwardClosure(g, x_names), BackwardClosure(g, y_names))

\* GradientGraphBuilder::Build with set_gradients_as_graph_outputs, g1 being
\* g with its gradient nodes: the gradients of the values of x_names that
\* got one are appended to the graph outputs in the order x_order, and the
\* graph is resolved.  A name of x_names that the graph does not know is an
\* error; a value of x_names without a gradient is an error (NoGradientPath)
\* if strict, and is left out otherwise.  [graph, status]
GradientGraphBuilder_Build(g, g1, x_names, x_order, strict) ==
  LET with_grad == {x \in x_names : Producers(g1, GradientName(x)) # {}}
      x_grads == GradientNames(SeqFilter(x_order, with_grad))
  IN IF \E x \in x_names : GetNodeArg(g, x) = NullArg
       THEN [graph |-> g, status |-> "NodeArgNotFound"]
     ELSE IF strict /\ with_grad # x_names
       THEN [graph |-> g, status |-> "NoGradientPath"]
     ELSE [graph |-> Resolve(SetOutputs(g1, GetOutputs(g1) \o x_grads)),
           status |-> "ok"]

\* ------------------------------------- module_gradient_graph_builder.cc
NoNames == [a \in {} |-> ""]

NoTrainingGraphInfo ==
  [user_input_names |-> <<>>, user_output_names |-> <<>>,
   initializer_names_to_train |-> <<>>, initializer_grad_names_to_train |-> <<>>,
   user_input_grad_names |-> NoNames,
   output_grad_indices_require_full_shape |-> <<>>]

\* Initialize: [model, info, status], held being the training_graph_info_ of
\* the builder at the call.  The graph inputs that are not to be trained are
\* appended to the user inputs that the builder holds (emplace_back, lines 34
\* and 40; the lists are not cleared), and the graph outputs to the user
\* outputs; the initializers to train are taken out of the initialized
\* tensors one by one, and the enforce on a name without a NodeArg ends the
\* loop before SetInputs.
Initialize(model, config, held) ==
  LET train == config.initializer_names_to_train
      user_input_names ==
        held.user_input_names
          \o SeqFilter(model.inputs, Range(model.inputs) \ Range(train))
      info == [held EXCEPT
                 !.user_input_names = user_input_names,
                 !.user_output_names = @ \o GetOutputs(model),
                 !.initializer_names_to_train = train]
      missing == {i \in DOMAIN train : GetNodeArg(model, train[i]) = NullArg}
      stop == IF missing = {} THEN Len(train) + 1
              ELSE CHOOSE i \in missing : \A j \in missing : i <= j
      removed == {train[i] : i \in 1..(stop - 1)}
      g1 == [model EXCEPT !.initializers = @ \ removed]
  IN IF missing # {}
       THEN [model |-> g1, info |-> info, status |-> "enforce_node_arg"]
     ELSE [model |-> SetInputs(g1, user_input_names \o train), info |-> info,
           status |-> "ok"]

\* A variant that sets the user inputs alone as the inputs of the graph.
SetConcreteInputShapesUserInputsOnly(g, info, input_shapes) ==
  LET names == info.user_input_names
      IndexOf(n) == CHOOSE i \in DOMAIN names :
                      names[i] = n /\ \A j \in DOMAIN names : names[j] = n => j <= i
      shaped == [n \in DOMAIN g.args |->
                   IF n \in Range(names)
                     THEN [g.args[n] EXCEPT !.rank = Len(input_shapes[IndexOf(n)]),
                                            !.dims = input_shapes[IndexOf(n)]]
                   ELSE g.args[n]]
  IN IF Len(input_shapes) # Len(names)
       THEN [graph |-> g, status |-> "shape_mismatch"]
     ELSE [graph |-> SetInputs([g EXCEPT !.args = shaped], names),
           status |-> "ok"]

\* SetConcreteInputShapes: [graph, status]; the enforce on the number of
\* shapes comes first.  The loop sets the shapes in the order of the user
\* inputs, so a name that is listed twice keeps the shape set last.
SetConcreteInputShapes(g, info, input_shapes) ==
  LET names == info.user_input_names
      IndexOf(n) == CHOOSE i \in DOMAIN names :
                      names[i] = n /\ \A j \in DOMAIN names : names[j] = n => j <= i
      shaped == [n \in DOMAIN g.args |->
                   IF n \in Range(names)
                     THEN [g.args[n] EXCEPT !.rank = Len(input_shapes[IndexOf(n)]),
                                            !.dims = input_shapes[IndexOf(n)]]
                   ELSE g.args[n]]
      input_args == names \o SubSeq(g.inputs, Len(names) + 1, Len(g.inputs))
  IN IF Len(input_shapes) # Len(names)
       THEN [graph |-> g, status |-> "shape_mismatch"]
     ELSE [graph |-> SetInputs([g EXCEPT !.args = shaped], input_args),
           status |-> "ok"]

\* x_node_arg_names of BuildGradientGraph: the union of the two lists.
XNodeArgNames(config) ==
  Range(config.initializer_names_to_train) \cup Range(config.input_names_require_grad)

\* The orders in which a loop may walk a std::unordered_set of names: the
\* order is unspecified, every order of the names is one.
RECURSIVE IterationOrders(_)
IterationOrders(names) ==
  IF names = {} THEN {<<>>}
  ELSE UNION {{<<n>> \o s : s \in IterationOrders(names \ {n})} : n \in names}

\* BuildGradientGraph after the transformers (lines 160-170), t being their
\* outcome: the first error is returned.  The set of the outcomes
\* [graph, status]: an operator on the way may have no gradient definition,
\* and the gradient graph builder walks x_node_arg_names in some order and
\* treats a value without a path strictly or not.
DifferentiateOptimized(t, x_node_arg_names, y_node_arg_names) ==
  LET g1 == AddGradientGraph(t.graph, y_node_arg_names, x_node_arg_names)
  IN IF t.status # "ok" THEN {[graph |-> t.graph, status |-> "transformer_error"]}
     ELSE {[graph |-> t.graph, status |-> "UnsupportedOperator"]}
            \cup {GradientGraphBuilder_Build(t.graph, g1, x_node_arg_names,
                                             x_order, strict) :
                    x_order \in IterationOrders(x_node_arg_names),
                    strict \in BOOLEAN}

\* A variant that hands the resolved graph to the gradient graph builder
\* without applying the transformers.
BuildGradientGraphUnoptimized(g, config, info) ==
  DifferentiateOptimized([graph |-> Resolve(g), status |-> "ok"],
                         XNodeArgNames(config), Range(info.user_output_names))

\* BuildGradientGraph: Resolve, the transformers, then the gradient graph
\* builder.  The set of the outcomes [graph, status].
BuildGradientGraph(g, config, info) ==
  DifferentiateOptimized(ApplyTransformers(Resolve(g)), XNodeArgNames(config),
                         Range(info.user_output_names))

\* The gradients of the user outputs that a node of the graph produces
\* (internal_output_grad_names).
InternalOutputGradNames(g, info) ==
  {GradientName(name) : name \in Range(info.user_output_names)}
    \cap UNION {Range(g.nodes[n].outs) : n \in Range(GetNodesInTopologicalOrder(g))}

\* Lines 194-203: the external NodeArg, the NodeArg of the sum and the Add
\* node of one internal output gradient.  [graph, add_node]
AddExternalGrad(g, output_grad_name) ==
  LET producer_node == GetProducerNode(g, output_grad_name)
      type_info == g.args[output_grad_name]
      e == GenerateNodeArgName(g, ExternalOutputName(output_grad_name))
      g1 == GetOrCreateNodeArg(e.graph, e.name, type_info)
      o == GenerateNodeArgName(g1, output_grad_name \o "_add_output")
      g2 == GetOrCreateNodeArg(o.graph, o.name, type_info)
  IN [graph |-> AddNode(g2, [op |-> "Add", ins |-> <<e.name, output_grad_name>>,
                             outs |-> <<o.name>>, attrs |-> NoAttrs, ver |-> 1,
                             ep |-> ""]),
      add_node |-> g2.next]

\* A variant that adds the Add node and leaves the consumers as they are.
AddOnly(g, output_grad_name) == AddExternalGrad(g, output_grad_name).graph

\* The body of the loop over internal_output_grad_names (lines 194-204).
AddAndRedirect(g, output_grad_name) ==
  LET producer_node == GetProducerNode(g, output_grad_name)
      producer_node_arg_index ==
        GetNodeOutputIndexFromOutputName(g.nodes[producer_node], output_grad_name)
      a == AddExternalGrad(g, output_grad_name)
  IN ReplaceDownstreamNodeInput(a.graph, producer_node, producer_node_arg_index,
                                a.add_node, 1)

\* The loop over internal_output_grad_names (line 193), names being the
\* order in which the loop meets the names of the unordered set.
RECURSIVE ReconcileOutputGrads(_, _)
ReconcileOutputGrads(g, names) ==
  IF names = <<>> THEN g
  ELSE ReconcileOutputGrads(AddAndRedirect(g, Head(names)), Tail(names))

\* HandleOutputsAndGrads: the Add nodes, then the YieldOp node that consumes
\* the user outputs and produces their (external) gradients.  grad_order is
\* the order in which the loop of line 193 walks internal_output_grad_names.
\* A nullptr among the NodeArgs handed to AddNode is dereferenced there:
\* "crashed".  [graph, info, status]
HandleOutputsAndGrads(g, info, grad_order) ==
  LET internal_output_grad_names == InternalOutputGradNames(g, info)
      g1 == ReconcileOutputGrads(g, grad_order)
      names == info.user_output_names
      YieldGradName(name) ==
        IF GradientName(name) \in internal_output_grad_names
          THEN ExternalOutputName(GradientName(name))
        ELSE GradientName(name)
      direct == {i \in DOMAIN names :
                   GradientName(names[i]) \notin internal_output_grad_names}
      full_shape == [k \in 1..Cardinality(direct) |->
                       (CHOOSE i \in direct :
                          Cardinality({j \in direct : j < i}) = k - 1) - 1]
      yield_input_node_args == [i \in DOMAIN names |-> GetNodeArg(g1, names[i])]
      yield_output_node_args ==
        [i \in DOMAIN names |-> GetNodeArg(g1, YieldGradName(names[i]))]
      info1 == [info EXCEPT !.output_grad_indices_require_full_shape = full_shape]
      yield == [op |-> "YieldOp", ins |-> yield_input_node_args,
                outs |-> yield_output_node_args,
                attrs |-> [full_shape_outputs |-> full_shape], ver |-> 1,
                ep |-> ""]
  IN IF NullArg \in Range(yield_input_node_args) \cup Range(yield_output_node_args)
       THEN [graph |-> g1, info |-> info1, status |-> "crashed"]
     ELSE [graph |-> AddNode(g1, yield), info |-> info1, status |-> "ok"]

\* A variant: the required inputs in the order of the configuration.
RequiredInConfiguredOrder(user_input_names, input_names_require_grad) ==
  SeqFilter(Dedup(input_names_require_grad), Range(user_input_names))

\* The user inputs that the first loop of ReorderOutputs handles, in the
\* order of the loop (lines 255-256).
RequiredUserInputs(user_input_names, input_names_require_grad) ==
  SeqFilter(user_input_names, Range(input_names_require_grad))

\* ReorderOutputs: [graph, info, status].  Each loop stops at the first
\* gradient that is no graph output (ORT_ENFORCE); SetOutputs is reached
\* only if there is none.
ReorderOutputs(g, config, info) ==
  LET gradient_output_arg_map == Range(GetOutputs(g))
      inputs == RequiredUserInputs(info.user_input_names,
                                   config.input_names_require_grad)
      miss1 == {i \in DOMAIN inputs :
                  GradientName(inputs[i]) \notin gradient_output_arg_map}
      stop1 == IF miss1 = {} THEN Len(inputs) + 1
               ELSE CHOOSE i \in miss1 : \A j \in miss1 : i <= j
      train == info.initializer_names_to_train
      miss2 == {i \in DOMAIN train :
                  GradientName(train[i]) \notin gradient_output_arg_map}
      stop2 == IF miss2 = {} THEN Len(train) + 1
               ELSE CHOOSE i \in miss2 : \A j \in miss2 : i <= j
      info1 == [info EXCEPT !.user_input_grad_names =
                  [n \in {inputs[i] : i \in 1..(stop1 - 1)} |-> GradientName(n)]]
      info2 == [info1 EXCEPT !.initializer_grad_names_to_train =
                  GradientNames(SubSeq(train, 1, stop2 - 1))]
      new_output_args == GradientNames(inputs) \o GradientNames(train)
  IN IF miss1 # {}
       THEN [graph |-> g, info |-> info1, status |-> "missing_input_grad"]
     ELSE IF miss2 # {}
       THEN [graph |-> g, info |-> info2, status |-> "missing_initializer_grad"]
     ELSE [graph |-> SetOutputs(g, new_output_args), info |-> info2,
           status |-> "ok"]

\* ------------------------------------------------ inputs of the builder
\* Largest number of Build calls on one builder.
MaxBuilds == 2
\* Largest number of shapes handed to a Build.
MaxShapes == 2
\* Largest number of Initialize calls on one builder.
MaxInits == 2

TensorArg(dims) == [rank |-> Len(dims), elem |-> "f32", dims |-> dims]

ForwardNode(op, ins, out, attrs) ==
  [op |-> op, ins |-> ins, outs |-> <<out>>, attrs |-> attrs, ver |-> 13,
   ep |-> "cpu"]

NoGraph ==
  [nodes |-> [n \in {} |-> NoInfo], edges |-> {}, outputs |-> {},
   args |-> [a \in {} |-> TensorArg(<<>>)], next |-> 1, inputs |-> <<>>,
   initializers |-> {}, output_order |-> <<>>, name_generator |-> 0]

\* The forward model
\*   t = Transpose(a), h = MatMul(t, w), o1 = Relu(h), o2 = Gemm(o1, b, v)
\* with the initializers w and v, the graph inputs and the graph outputs as
\* given, and h naming the value of the MatMul.
ForwardModel(inputs, outputs, h) ==
  LET g0 == [NoGraph EXCEPT
               !.args = [a \in {"a", "b", "w", "v", "t", h, "o1", "o2"} |->
                           TensorArg(<<2, 2>>)],
               !.inputs = inputs, !.initializers = {"w", "v"}]
      g1 == AddNode(g0, ForwardNode("Transpose", <<"a">>, "t", [perm |-> <<1, 0>>]))
      g2 == AddNode(g1, ForwardNode("MatMul", <<"t", "w">>, h, NoAttrs))
      g3 == AddNode(g2, ForwardNode("Relu", <<h>>, "o1", NoAttrs))
      g4 == AddNode(g3, ForwardNode("Gemm", <<"o1", "b", "v">>, "o2", NoAttrs))
  IN Resolve(SetOutputs(g4, outputs))

ForwardModels ==
  {ForwardModel(i, o, h) :
     i \in {<<"a", "b">>, <<"a", "w", "b">>},
     o \in {<<"o1">>, <<"o1", "o2">>, <<"o2", "o1">>},
     h \in {"h", "o1_grad_external"}}
    \cup {ForwardModel(<<"a", "b">>, <<"h", "o1", "o2">>, "h")}

Configurations ==
  {[initializer_names_to_train |-> t, input_names_require_grad |-> r] :
     t \in {<<>>, <<"w">>, <<"v">>, <<"w", "v">>, <<"v", "w">>, <<"z">>},
     r \in {<<>>, <<"a">>, <<"b">>, <<"a", "b">>, <<"b", "a">>, <<"h">>}}

\* input_shapes_ptr: nullptr, or a list of shapes.
InputShapeChoices ==
  {[given |-> FALSE, shapes |-> <<>>]}
    \cup {[given |-> TRUE, shapes |-> s] :
            s \in UNION {[1..k -> {<<2, 2>>, <<4>>}] : k \in 1..MaxShapes}}

\* --------------------------------------- ModuleGradientGraphBuilder calls
\* Build(nullptr): no shapes are given.
NoShapes == [given |-> FALSE, shapes |-> <<>>]

\* GetGradientModel has not been called since the last Build.
NoModelStr == [returned |-> FALSE, graph |-> NoGraph]

\* The builder as constructed: no model, no configuration.
BuilderConstructed ==
  /\ model_ = NoGraph
  /\ gradient_model_ = NoGraph
  /\ config_ = [initializer_names_to_train |-> <<>>, input_names_require_grad |-> <<>>]
  /\ training_graph_info_ = NoTrainingGraphInfo
  /\ bpc = "new"
  /\ bstatus = "none"
  /\ builds = 0
  /\ differentiated = NoGraph
  /\ model_istream = NoGraph
  /\ input_shapes_ptr = NoShapes
  /\ model_str = NoModelStr
  /\ inits = 0

\* ------------------------------------------- building the forward graph
\* The graphs that the pass is given are graphs as Graph::AddNode and
\* Graph::GetOrCreateNodeArg build them for the nodes of a model: typed
\* values, attributes on the nodes.
InputArgs == [a \in {"x", "y"} |-> [rank |-> 2, elem |-> "f32"]]

EmptyGraph == [nodes |-> [n \in {} |-> NoInfo], edges |-> {}, outputs |-> {},
               args |-> InputArgs, next |-> 1]

NodesOf(g, ops) == {n \in Live(g) : g.nodes[n].op \in ops}

ChainValues(g) == {g.nodes[n].outs[1] : n \in NodesOf(g, {"Transpose", "Cast"})}

\* Position of a value in building order ("x" and "y" come first).
ValPos(v) == IF v \in {"x", "y"} THEN 0
             ELSE CHOOSE k \in DOMAIN ValName : ValName[k] = v

\* The input of the node built last with one of the operators ops.
LastInputPos(g, ops) ==
  IF NodesOf(g, ops) = {} THEN 0
  ELSE LET n == CHOOSE m \in NodesOf(g, ops) : \A k \in NodesOf(g, ops) : k <= m
       IN ValPos(g.nodes[n].ins[1])

OtherElem(e) == IF e = "f32" THEN "f16" ELSE "f32"

\* Graph::AddNode of a node with attributes, its output a new typed NodeArg.
BuildGraphNode(g, op, ins, attrs, ver, elem, declared) ==
  LET out == ValName[g.next]
      g1 == GetOrCreateNodeArg(g, out, [rank |-> g.args[ins[1]].rank, elem |-> elem])
      g2 == AddNode(g1, [op |-> op, ins |-> ins, outs |-> <<out>>,
                         attrs |-> attrs, ver |-> ver, ep |-> "cpu"])
  IN IF declared THEN [g2 EXCEPT !.outputs = @ \cup {out}] ELSE g2

\* The forward graph is complete: it has a matmul, and every value of a
\* Transpose or Cast is consumed or declared a graph output.
NoDeadNodes(g) ==
  /\ NodesOf(g, {"MatMul"}) # {}
  /\ \A v \in ChainValues(g) : GetConsumerNodes(g, v) # {} \/ v \in g.outputs

PassVarsUnchanged ==
  /\ UNCHANGED <<order, pos, removed_nodes, consumer_count, modified, entry,
                 rerun, last, erased>>
  /\ UNCHANGED builder_vars

\* A Transpose of the last two axes of a graph input or of a chain value,
\* optionally declared a graph output (at most one chain value is).
BuildTranspose ==
  /\ pc = "build"
  /\ graph.next <= MaxNodes
  /\ NodesOf(graph, {"Relu", "MatMul"}) = {}
  /\ \E input \in {"x"} \cup ChainValues(graph), declared \in BOOLEAN :
       /\ ValPos(input) >= LastInputPos(graph, {"Transpose", "Cast"})
       /\ declared => graph.outputs = {}
       /\ graph' = BuildGraphNode(graph, "Transpose", <<input>>,
                                  [perm |-> <<1, 0>>], 13,
                                  graph.args[input].elem, declared)
  /\ UNCHANGED pc
  /\ PassVarsUnchanged

BuildCast ==
  /\ pc = "build"
  /\ graph.next <= MaxNodes
  /\ NodesOf(graph, {"Relu", "MatMul"}) = {}
  /\ \E input \in {"x"} \cup ChainValues(graph), declared \in BOOLEAN :
       /\ ValPos(input) >= LastInputPos(graph, {"Transpose", "Cast"})
       /\ declared => graph.outputs = {}
       /\ graph' = BuildGraphNode(graph, "Cast", <<input>>,
                                  [to |-> OtherElem(graph.args[input].elem)], 13,
                                  OtherElem(graph.args[input].elem), declared)
  /\ UNCHANGED pc
  /\ PassVarsUnchanged

\* A consumer that the pass does not rewrite.
BuildRelu ==
  /\ pc = "build"
  /\ graph.next <= MaxNodes
  /\ NodesOf(graph, {"MatMul"}) = {}
  /\ \E input \in ChainValues(graph) :
       /\ ValPos(input) >= LastInputPos(graph, {"Relu"})
       /\ graph' = BuildGraphNode(graph, "Relu", <<input>>, NoAttrs, 13,
                                  graph.args[input].elem, TRUE)
  /\ UNCHANGED pc
  /\ PassVarsUnchanged

BuildMatMul ==
  /\ pc = "build"
  /\ graph.next <= MaxNodes
  /\ \E l \in {"x"} \cup ChainValues(graph), r \in {"y"} \cup ChainValues(graph) :
       graph' = BuildGraphNode(graph, "MatMul", <<l, r>>, NoAttrs, 13,
                               graph.args[l].elem, TRUE)
  /\ UNCHANGED pc
  /\ PassVarsUnchanged

\* ---------------------------------------- MatmulTransposeFusion::ApplyImpl
\* Entry of ApplyImpl on a resolved graph: the snapshot of the topological
\* order is taken and the deque and the count map start empty (lines 261-265).
StartPass ==
  /\ \/ pc = "build" /\ NoDeadNodes(graph)
     \/ pc \in {"ready", "done"}
  /\ pc' = "visit"
  /\ order' = GetNodesInTopologicalOrder(graph)
  /\ pos' = 1
  /\ removed_nodes' = <<>>
  /\ consumer_count' = NoCounts
  /\ graph' = Resolve(graph)
  /\ entry' = [graph |-> Resolve(graph), modified |-> modified]
  /\ rerun' = (pc = "done")
  /\ last' = NoInfo
  /\ erased' = <<>>
  /\ UNCHANGED modified
  /\ UNCHANGED builder_vars

\* The outcome r of an iteration becomes the state of the pass.
TakeVisit(r) ==
  /\ graph' = r.graph
  /\ consumer_count' = r.counts
  /\ removed_nodes' = r.removed
  /\ modified' = r.modified
  /\ last' = r.info
  /\ pc' = IF r.status = "ok" THEN "visit" ELSE "failed"

\* A variant that walks the topological order of the graph as it is now,
\* not the snapshot.
VisitNodeOfLiveGraph ==
  /\ pc = "visit"
  /\ pos <= Len(order)
  /\ TakeVisit(VisitStep(graph,
                         IF pos <= Len(GetNodesInTopologicalOrder(graph))
                           THEN GetNodesInTopologicalOrder(graph)[pos]
                         ELSE order[pos],
                         consumer_count, removed_nodes, modified))
  /\ pos' = pos + 1
  /\ UNCHANGED <<order, entry, rerun, erased>>
  /\ UNCHANGED builder_vars

\* One iteration of "for (auto node_index : node_topology_list)".
VisitNode ==
  /\ pc = "visit"
  /\ pos <= Len(order)
  /\ TakeVisit(VisitStep(graph, order[pos], consumer_count, removed_nodes, modified))
  /\ pos' = pos + 1
  /\ UNCHANGED <<order, entry, rerun, erased>>
  /\ UNCHANGED builder_vars

TakeErasures(r) ==
  /\ graph' = r.graph
  /\ erased' = r.erased
  /\ pc' = IF r.status = "ok" THEN "done" ELSE "failed"

\* The loop over removed_nodes and the return (lines 341-346).
FinishPass ==
  /\ pc = "visit"
  /\ pos > Len(order)
  /\ TakeErasures(EraseQueuedNodes(graph, removed_nodes, <<>>))
  /\ UNCHANGED <<order, pos, removed_nodes, consumer_count, modified, entry,
                 rerun, last>>
  /\ UNCHANGED builder_vars

Init ==
  /\ graph = EmptyGraph
  /\ pc = "build"
  /\ order = <<>>
  /\ pos = 1
  /\ removed_nodes = <<>>
  /\ consumer_count = NoCounts
  /\ modified = FALSE
  /\ entry = [graph |-> EmptyGraph, modified |-> FALSE]
  /\ rerun = FALSE
  /\ last = NoInfo
  /\ erased = <<>>
  /\ BuilderConstructed

PassNext == StartPass \/ VisitNode \/ FinishPass

Next == BuildTranspose \/ BuildCast \/ BuildRelu \/ BuildMatMul \/ PassNext

Spec == Init /\ [][Next]_vars

\* ------------------------------------------- graphs that vary attributes
\* All permutations of the axes 0..r-1, as perm attributes.
AxisPermutations(r) ==
  {p \in [1..r -> 0..(r - 1)] : \A i, j \in 1..r : p[i] = p[j] => i = j}

\* The perm attribute and the rank of the input of a Transpose of a valid
\* model: a perm of the rank of the input if the rank is known, or no perm.
TransposeChoices ==
  {[attrs |-> [perm |-> p], rank |-> k] :
     p \in UNION {AxisPermutations(r) : r \in 0..MaxRank}, k \in {NoShape} \cup (0..MaxRank)}
  \cup {[attrs |-> NoAttrs, rank |-> k] : k \in {NoShape} \cup (0..MaxRank)}

ValidTransposeChoices ==
  {c \in TransposeChoices :
     "perm" \in DOMAIN c.attrs => c.rank \in {NoShape, Len(c.attrs.perm)}}

\* The matmul nodes a graph can hold: MatMul of several opset versions and
\* FusedMatMul with its three attributes.
MatMulChoices ==
  {[op |-> "MatMul", ver |-> v, attrs |-> NoAttrs] : v \in {1, 9, 13}}
  \cup {[op |-> "FusedMatMul", ver |-> 1,
         attrs |-> [transA |-> a, transB |-> b, alpha |-> al]] :
          a \in {0, 1}, b \in {0, 1}, al \in {1, 2}}

\* x -> Transpose -> [Cast ->] matmul, the transposed value on one side of
\* the matmul and the graph input "y" on the other; tins are the inputs the
\* Transpose names.
TemplateGraph(tc, tins, declared, viaCast, side, mm, ep) ==
  LET g0 == [EmptyGraph EXCEPT !.args.x.rank = tc.rank]
      tout == ValName[g0.next]
      gt == AddNode(GetOrCreateNodeArg(g0, tout, [rank |-> tc.rank, elem |-> "f32"]),
                    [op |-> "Transpose", ins |-> tins, outs |-> <<tout>>,
                     attrs |-> tc.attrs, ver |-> 13, ep |-> "cpu"])
      g1 == IF declared THEN [gt EXCEPT !.outputs = @ \cup {tout}] ELSE gt
      g2 == IF viaCast
              THEN BuildGraphNode(g1, "Cast", <<"v1">>, [to |-> "f16"], 13,
                                  "f16", FALSE)
            ELSE g1
      t == IF viaCast THEN "v2" ELSE "v1"
      ins == IF side = "left" THEN <<t, "y">> ELSE <<"y", t>>
      out == ValName[g2.next]
      g3 == GetOrCreateNodeArg(g2, out, [rank |-> NoShape, elem |-> "f32"])
      g4 == AddNode(g3, [op |-> mm.op, ins |-> ins, outs |-> <<out>>,
                         attrs |-> mm.attrs, ver |-> mm.ver, ep |-> ep])
  IN [g4 EXCEPT !.outputs = @ \cup {out}]

\* The Transpose of the graph names its one input, or none or two (the cases
\* the ORT_ENFORCE of GetTransposePerms tells apart).
InitAttr ==
  /\ \E tc \in ValidTransposeChoices, tins \in {<<>>, <<"x">>, <<"x", "y">>},
        declared \in BOOLEAN, viaCast \in BOOLEAN, side \in {"left", "right"},
        mm \in MatMulChoices, ep \in {"cpu", "gpu"} :
       graph = TemplateGraph(tc, tins, declared, viaCast, side, mm, ep)
  /\ pc = "ready"
  /\ order = <<>>
  /\ pos = 1
  /\ removed_nodes = <<>>
  /\ consumer_count = NoCounts
  /\ modified = FALSE
  /\ entry = [graph |-> EmptyGraph, modified |-> FALSE]
  /\ rerun = FALSE
  /\ last = NoInfo
  /\ erased = <<>>
  /\ BuilderConstructed

SpecAttr == InitAttr /\ [][PassNext]_vars

\* ------------------------------------ the test helper (graph_gen_helper.h)
\* A NodeArg made without a type, "GetOrCreateNodeArg(name, nullptr)": it has
\* no shape and no element type.
UntypedArg == [rank |-> NoShape, elem |-> "undefined", dims |-> <<>>]

\* Graph::GenerateNodeName: base_name if no node has it, else the first
\* base_name_token_<counter> that no node has; the counter is the one of
\* GenerateNodeArgName.  [name, graph]
GenerateNodeName(g, base_name) ==
  LET used == {g.nodes[n].name : n \in Live(g)}
      token(k) == base_name \o "_token_" \o ToString(k)
  IN IF base_name \notin used THEN [name |-> base_name, graph |-> g]
     ELSE LET k == CHOOSE i \in g.name_generator..(g.name_generator + Cardinality(used)) :
                     /\ token(i) \notin used
                     /\ \A j \in g.name_generator..(i - 1) : token(j) \in used
          IN [name |-> token(k), graph |-> [g EXCEPT !.name_generator = k + 1]]

\* Graph::AddInitializedTensor on a graph that is not loaded from a file: the
\* tensor is an initializer, and a name without a NodeArg gets one with the
\* element type of the tensor and no shape.
AddInitializedTensor(g, tensor_proto) ==
  GetOrCreateNodeArg([g EXCEPT !.initializers = @ \cup {tensor_proto.name}],
                     tensor_proto.name,
                     [rank |-> NoShape, elem |-> tensor_proto.data_type,
                      dims |-> <<>>])

\* The helper as constructed on a graph (lines 21-23, 158-161).
GraphBuilder(g) ==
  [graph_ |-> g, feeds_ |-> [n \in {} |-> <<>>], output_names_ |-> <<>>]

\* FillRandomData(shape, min_value, max_value) (lines 143-158): as many
\* values as the shape has elements, drawn between min_value and max_value;
\* of the values the model keeps the number and the bounds.
FillRandomData(shape, min_value, max_value) ==
  LET RECURSIVE num_elements(_)
      num_elements(dims) == IF dims = <<>> THEN 1
                            ELSE Head(dims) * num_elements(Tail(dims))
  IN [count |-> num_elements(shape), min_value |-> min_value,
      max_value |-> max_value]

\* MakeInput<T>(shape) (lines 25-46): a typed NodeArg named by
\* GenerateNodeArgName("input"), and a feed of random data for it.  The
\* shape of the type is made by the loop over the dimensions (lines 41-43):
\* without a dimension the type has no shape.  [helper, arg]
MakeInput(helper, shape, elem) ==
  LET n == GenerateNodeArgName(helper.graph_, "input")
      type_proto == [rank |-> IF shape = <<>> THEN NoShape ELSE Len(shape),
                     elem |-> elem, dims |-> shape]
  IN [helper |-> [helper EXCEPT
                    !.feeds_ = IF n.name \in DOMAIN @ THEN @
                               ELSE MapPut(@, n.name, FillRandomData(shape, 0, 31)),
                    !.graph_ = GetOrCreateNodeArg(n.graph, n.name, type_proto)],
      arg |-> n.name]

\* MakeOutput (lines 48-52).  [helper, arg]
MakeOutput(helper) ==
  LET n == GenerateNodeArgName(helper.graph_, "output")
  IN [helper |-> [helper EXCEPT
                    !.output_names_ = Append(@, n.name),
                    !.graph_ = GetOrCreateNodeArg(n.graph, n.name, UntypedArg)],
      arg |-> n.name]

\* MakeIntermediate (lines 54-57).  [helper, arg]
MakeIntermediate(helper) ==
  LET n == GenerateNodeArgName(helper.graph_, "node")
  IN [helper |-> [helper EXCEPT
                    !.graph_ = GetOrCreateNodeArg(n.graph, n.name, UntypedArg)],
      arg |-> n.name]

\* MakeInitializer<T>(shape, data) (lines 59-74).  [helper, arg]
MakeInitializer(helper, shape, elem, data) ==
  LET n == GenerateNodeArgName(helper.graph_, "constant")
      tensor_proto == [name |-> n.name, data_type |-> elem, raw_data |-> data,
                       dims |-> shape]
      g == AddInitializedTensor(n.graph, tensor_proto)
  IN [helper |-> [helper EXCEPT
                    !.graph_ = GetOrCreateNodeArg(g, n.name, UntypedArg)],
      arg |-> n.name]

\* MakeScalarInitializer<T>(data) (lines 81-84).
MakeScalarInitializer(helper, elem, data) ==
  MakeInitializer(helper, <<>>, elem, <<data>>)

\* Make1DInitializer<T>(data) (lines 86-89).
Make1DInitializer(helper, elem, data) ==
  MakeInitializer(helper, <<Len(data)>>, elem, data)

\* MakeWeightsInitializer<T>(shape, min_value, max_value) (lines 76-79, 91-94).
MakeWeightsInitializer(helper, shape, elem, min_value, max_value) ==
  MakeInitializer(helper, shape, elem, FillRandomData(shape, min_value, max_value))

\* GraphBuilder::AddNode (lines 96-107): the node is named by
\* GenerateNodeName("node") and gets no attributes; its version and its
\* provider are not set.
GraphBuilder_AddNode(helper, op_type, input_args, output_args, domain) ==
  LET n == GenerateNodeName(helper.graph_, "node")
  IN [helper EXCEPT
        !.graph_ = AddNode(n.graph,
                           [name |-> n.name, op |-> op_type, ins |-> input_args,
                            outs |-> output_args, attrs |-> NoAttrs,
                            domain |-> domain, ver |-> -1, ep |-> ""])]

\* AddConvNode (lines 109-117).
AddConvNode(helper, input_arg, weights_arg, output_arg) ==
  GraphBuilder_AddNode(helper, "Conv", <<input_arg, weights_arg>>,
                       <<output_arg>>, "")

\* AddQuantizeLinearNode (lines 119-129): the scale and the zero point are
\* made scalar initializers, in that order.
AddQuantizeLinearNode(helper, input_arg, input_scale, input_zero_point, output_arg) ==
  LET scale == MakeScalarInitializer(helper, "f32", input_scale)
      zero == MakeScalarInitializer(scale.helper, "u8", input_zero_point)
  IN GraphBuilder_AddNode(zero.helper, "QuantizeLinear",
                          <<input_arg, scale.arg, zero.arg>>, <<output_arg>>, "")

\* AddDequantizeLinearNode (lines 131-141).
AddDequantizeLinearNode(helper, input_arg, input_scale, input_zero_point, output_arg) ==
  LET scale == MakeScalarInitializer(helper, "f32", input_scale)
      zero == MakeScalarInitializer(scale.helper, "u8", input_zero_point)
  IN GraphBuilder_AddNode(zero.helper, "DequantizeLinear",
                          <<input_arg, scale.arg, zero.arg>>, <<output_arg>>, "")

\* build_test_case of QDQTransformerTests.Conv (qdq_transformer_test.cc,
\* lines 24-38): Q -> DQ -> Conv -> Q with a dequantized weight.
QDQConvTestCase(helper, input_shape, weights_shape) ==
  LET input_arg == MakeInput(helper, input_shape, "f32")
      output_arg == MakeOutput(input_arg.helper)
      q_output == MakeIntermediate(output_arg.helper)
      dq_output == MakeIntermediate(q_output.helper)
      dq_w_output == MakeIntermediate(dq_output.helper)
      conv_output == MakeIntermediate(dq_w_output.helper)
      weight == MakeWeightsInitializer(conv_output.helper, weights_shape, "u8", 0, 128)
      h1 == AddQuantizeLinearNode(weight.helper, input_arg.arg, ".01f", 135, q_output.arg)
      h2 == AddDequantizeLinearNode(h1, q_output.arg, ".01f", 135, dq_output.arg)
      h3 == AddDequantizeLinearNode(h2, weight.arg, ".01f", 12, dq_w_output.arg)
      h4 == AddConvNode(h3, dq_output.arg, dq_w_output.arg, conv_output.arg)
  IN AddQuantizeLinearNode(h4, conv_output.arg, ".01f", 135, output_arg.arg)

\* TransformerTester, as far as the graph goes: the test case is built on the
\* graph of a new model, and the graph is resolved (its outputs are the
\* values that MakeOutput named) before the transformers run on it.
TransformerTester(input_shape, weights_shape) ==
  LET helper == QDQConvTestCase(GraphBuilder(NoGraph), input_shape, weights_shape)
  IN Resolve(SetOutputs(helper.graph_, helper.output_names_))

\* The three calls of test_case (lines 48-50).
QDQConvGraphs ==
  {TransformerTester(<<1, 12, 37>>, <<32, 12, 5>>),
   TransformerTester(<<1, 23, 13, 13>>, <<30, 23, 3, 3>>),
   TransformerTester(<<1, 22, 11, 13, 15>>, <<30, 22, 5, 3, 3>>)}

\* ------------------------------------ graphs as a model file can hold them
\* A node whose output NodeArg has the name the author of the model chose.
BuildNamedNode(g, op, ins, attrs, ver, out, type, declared) ==
  LET g1 == GetOrCreateNodeArg(g, out, type)
      g2 == AddNode(g1, [op |-> op, ins |-> ins, outs |-> <<out>>,
                         attrs |-> attrs, ver |-> ver, ep |-> "cpu"])
  IN IF declared THEN [g2 EXCEPT !.outputs = @ \cup {out}] ELSE g2

\* Transpose -> Cast -> MatMul, the cast value on one side of the MatMul, in
\* a graph that holds one more value, named name.  role tells what the value
\* is: "feeds" (a graph input that a Relu before the Transpose reads),
\* "beside" (a graph input that a Relu with a declared output reads) or
\* "produced" (the declared output of a Relu of "y").
NamedGraph(role, name, elem, side) ==
  LET type == [rank |-> 2, elem |-> elem]
      g0 == IF role = "produced" THEN EmptyGraph
            ELSE GetOrCreateNodeArg(EmptyGraph, name, type)
      g1 == IF role = "feeds"
              THEN BuildGraphNode(g0, "Relu", <<name>>, NoAttrs, 13, elem, FALSE)
            ELSE g0
      src == IF role = "feeds" THEN "v1" ELSE "x"
      g2 == BuildGraphNode(g1, "Transpose", <<src>>, [perm |-> <<1, 0>>], 13,
                           g1.args[src].elem, FALSE)
      t == ValName[g1.next]
      g3 == BuildGraphNode(g2, "Cast", <<t>>, [to |-> OtherElem(g2.args[t].elem)],
                           13, OtherElem(g2.args[t].elem), FALSE)
      c == ValName[g2.next]
      g4 == IF role = "beside"
              THEN BuildGraphNode(g3, "Relu", <<name>>, NoAttrs, 13, elem, TRUE)
            ELSE IF role = "produced"
              THEN BuildNamedNode(g3, "Relu", <<"y">>, NoAttrs, 13, name,
                                  g3.args["y"], TRUE)
            ELSE g3
  IN BuildGraphNode(g4, "MatMul", IF side = "left" THEN <<c, "y">> ELSE <<"y", c>>,
                    NoAttrs, 13, g4.args[c].elem, TRUE)

\* The name is the one that the interchange of the Cast gives its new value
\* ("v2_transformed", or "v3_transformed" when a Relu comes first), or not.
NamedGraphs ==
  {NamedGraph(role, name, elem, side) :
     role \in {"feeds", "beside", "produced"}, name \in {"v2_transformed", "v3_transformed", "w"},
     elem \in {"f32", "f16"}, side \in {"left", "right"}}

\* FusedMatMul nodes that leave out attributes (the schema of the operator
\* gives each of the three a default), and the plain MatMul.
OptionalAttrChoices ==
  {[op |-> "FusedMatMul", ver |-> 1,
    attrs |-> [k \in given |-> IF k = "alpha" THEN 2 ELSE 1]] :
      given \in SUBSET {"transA", "transB", "alpha"}}
  \cup {[op |-> "MatMul", ver |-> 13, attrs |-> NoAttrs]}

OptionalAttrGraphs ==
  {TemplateGraph([attrs |-> [perm |-> <<1, 0>>], rank |-> 2], <<"x">>, FALSE,
                 viaCast, side, mm, "cpu") :
     viaCast \in BOOLEAN, side \in {"left", "right"}, mm \in OptionalAttrChoices}

\* x -> Transpose -> v1 and a matmul node that was given one input only.
ShortGraph(operand, mm) ==
  LET g1 == BuildGraphNode(EmptyGraph, "Transpose", <<"x">>, [perm |-> <<1, 0>>],
                           13, "f32", FALSE)
      g2 == BuildGraphNode(g1, mm.op, <<operand>>, mm.attrs, mm.ver, "f32", TRUE)
  IN IF operand = "v1" THEN g2
     ELSE [g2 EXCEPT !.outputs = @ \cup {"v1"}]

ShortGraphs ==
  {ShortGraph(operand, mm) :
     operand \in {"x", "v1"},
     mm \in {[op |-> "MatMul", ver |-> 13, attrs |-> NoAttrs],
             [op |-> "FusedMatMul", ver |-> 1,
              attrs |-> [transA |-> 0, transB |-> 0, alpha |-> 1]]}}

\* A Transpose node that was given two inputs, x and y, its value v1 on one
\* side of a MatMul.
TwoInputTransposeGraphs ==
  {BuildGraphNode(BuildGraphNode(EmptyGraph, "Transpose", <<"x", "y">>,
                                 [perm |-> <<1, 0>>], 13, "f32", FALSE),
                  "MatMul", ins, NoAttrs, 13, "f32", TRUE) :
     ins \in {<<"v1", "y">>, <<"y", "v1">>}}

InitLoaded ==
  /\ graph \in NamedGraphs \cup OptionalAttrGraphs \cup ShortGraphs
                \cup TwoInputTransposeGraphs \cup QDQConvGraphs
  /\ pc = "ready"
  /\ order = <<>>
  /\ pos = 1
  /\ removed_nodes = <<>>
  /\ consumer_count = NoCounts
  /\ modified = FALSE
  /\ entry = [graph |-> EmptyGraph, modified |-> FALSE]
  /\ rerun = FALSE
  /\ last = NoInfo
  /\ erased = <<>>
  /\ BuilderConstructed

\* The node n passes the filter of the loop and has fewer than two inputs:
\* "node.MutableInputDefs()[1]" (line 280) reads past the end of the vector.
ShortCandidate(g, n) == IsFusionCandidate(g.nodes[n]) /\ Len(g.nodes[n].ins) < 2

\* An iteration on a node whose operands the code can read.
VisitLoadedNode ==
  /\ pc = "visit"
  /\ pos <= Len(order)
  /\ ~ShortCandidate(graph, order[pos])
  /\ VisitNode

\* The graph g as the iteration sees it when the read past the end of the
\* input vector of the node n gives the NodeArg v.
WithReadOperand(g, n, v) == [g EXCEPT !.nodes[n].ins = Append(@, v)]

\* The outcome r of an iteration that went on with a NodeArg it read past
\* the end of the vector ins; the vector of the node itself is as it was.
TakeShortVisit(n, ins, r) ==
  /\ graph' = IF n \in Live(r.graph) THEN [r.graph EXCEPT !.nodes[n].ins = ins]
              ELSE r.graph
  /\ consumer_count' = r.counts
  /\ removed_nodes' = r.removed
  /\ modified' = r.modified
  /\ last' = r.info
  /\ pc' = IF r.status = "ok" THEN "visit" ELSE "failed"

\* An iteration on a matmul node with one input.  The read of the second
\* input is undefined behaviour: the process dies on the pointer it read, or
\* the pointer is that of some NodeArg of the graph and the iteration goes on
\* with it as the right operand.
VisitShortNode ==
  /\ pc = "visit"
  /\ pos <= Len(order)
  /\ ShortCandidate(graph, order[pos])
  /\ Len(graph.nodes[order[pos]].ins) = 1
  /\ \/ /\ pc' = "crashed"
        /\ last' = [NoInfo EXCEPT !.node = order[pos], !.kind = "crashed"]
        /\ UNCHANGED <<graph, consumer_count, removed_nodes, modified>>
     \/ \E v \in DOMAIN graph.args :
          TakeShortVisit(order[pos], graph.nodes[order[pos]].ins,
                         VisitStep(WithReadOperand(graph, order[pos], v), order[pos],
                                   consumer_count, removed_nodes, modified))
  /\ pos' = pos + 1
  /\ UNCHANGED <<order, entry, rerun, erased>>
  /\ UNCHANGED builder_vars

LoadedNext == StartPass \/ VisitLoadedNode \/ VisitShortNode \/ FinishPass

SpecLoaded == InitLoaded /\ [][LoadedNext]_vars

\* The outcome r of Initialize becomes the state of the builder.
TakeInitialize(config, r) ==
  /\ model_' = r.model
  /\ config_' = config
  /\ training_graph_info_' = r.info
  /\ bstatus' = r.status
  /\ bpc' = IF r.status = "ok" THEN "initialized" ELSE "init_failed"

\* GetGradientModel: the serialization of the graph that gradient_model_
\* holds, whatever the outcome of the Build that made it.
GetGradientModel(gradient_model) == [returned |-> TRUE, graph |-> gradient_model]

\* Initialize(model_istream, config), on a new builder or on one that has
\* been initialized before; a later call is given the model and the
\* configuration of the first one again.
CallInitialize ==
  /\ bpc \in {"new", "initialized", "init_failed", "built", "build_failed"}
  /\ inits < MaxInits
  /\ \E model \in ForwardModels, config \in Configurations :
       /\ inits > 0 => model = model_istream /\ config = config_
       /\ model_istream' = model
       /\ TakeInitialize(config, Initialize(model, config, training_graph_info_))
  /\ inits' = inits + 1
  /\ UNCHANGED <<gradient_model_, builds, differentiated, input_shapes_ptr,
                 model_str>>
  /\ UNCHANGED pass_vars

TakeCopy(r) ==
  /\ gradient_model_' = r.graph
  /\ bstatus' = r.status
  /\ bpc' = IF r.status = "ok" THEN "copied" ELSE "build_failed"

\* A variant of Build that goes on with the gradient model of the build
\* before instead of a copy of the saved model.
CallBuildOnEarlierCopy ==
  /\ bpc \in {"initialized", "built", "build_failed"}
  /\ builds < MaxBuilds
  /\ \E input_shapes \in InputShapeChoices :
       /\ input_shapes_ptr' = input_shapes
       /\ TakeCopy(IF input_shapes.given
                  THEN SetConcreteInputShapes(
                         IF builds = 0 THEN model_ ELSE gradient_model_,
                         training_graph_info_, input_shapes.shapes)
                ELSE [graph |-> IF builds = 0 THEN model_ ELSE gradient_model_,
                      status |-> "ok"])
  /\ builds' = builds + 1
  /\ differentiated' = NoGraph
  /\ model_str' = NoModelStr
  /\ UNCHANGED <<model_, config_, training_graph_info_, model_istream>>
  /\ UNCHANGED inits
  /\ UNCHANGED pass_vars

\* Build(input_shapes_ptr) up to BuildGradientGraph (lines 68-76): the copy
\* of the saved model and SetConcreteInputShapes.
CallBuild ==
  /\ bpc \in {"initialized", "built", "build_failed"}
  /\ builds < MaxBuilds
  /\ \E input_shapes \in InputShapeChoices :
       /\ input_shapes_ptr' = input_shapes
       /\ TakeCopy(IF input_shapes.given
                  THEN SetConcreteInputShapes(model_, training_graph_info_,
                                              input_shapes.shapes)
                ELSE [graph |-> model_, status |-> "ok"])
  /\ builds' = builds + 1
  /\ differentiated' = NoGraph
  /\ model_str' = NoModelStr
  /\ UNCHANGED <<model_, config_, training_graph_info_, model_istream>>
  /\ UNCHANGED inits
  /\ UNCHANGED pass_vars

TakeGradientGraph(r) ==
  /\ gradient_model_' = r.graph
  /\ bstatus' = r.status
  /\ bpc' = IF r.status = "ok" THEN "differentiated" ELSE "build_failed"
  /\ differentiated' = IF r.status = "ok" THEN r.graph ELSE NoGraph

\* ORT_RETURN_IF_ERROR(BuildGradientGraph()) (line 79).  The gradient graph
\* builder walks x_node_arg_names in some order, treats a value without a
\* path strictly or not, and fails if an operator on the way has no gradient
\* definition.
StepBuildGradientGraph ==
  /\ bpc = "copied"
  /\ \E r \in BuildGradientGraph(gradient_model_, config_, training_graph_info_) :
       TakeGradientGraph(r)
  /\ UNCHANGED <<model_, config_, training_graph_info_, builds, model_istream,
                 input_shapes_ptr, model_str>>
  /\ UNCHANGED inits
  /\ UNCHANGED pass_vars

\* A variant that goes on with the list of full-shape indices of the build
\* before instead of an empty one.
TakeHandledAppending(r) ==
  /\ gradient_model_' = r.graph
  /\ training_graph_info_' =
       [r.info EXCEPT !.output_grad_indices_require_full_shape =
          training_graph_info_.output_grad_indices_require_full_shape \o @]
  /\ bstatus' = r.status
  /\ bpc' = IF r.status = "ok" THEN "handled" ELSE "crashed"

TakeHandled(r) ==
  /\ gradient_model_' = r.graph
  /\ training_graph_info_' = r.info
  /\ bstatus' = r.status
  /\ bpc' = IF r.status = "ok" THEN "handled" ELSE "crashed"

\* HandleOutputsAndGrads() (line 82); the loop over the unordered set
\* internal_output_grad_names walks it in some order.
StepHandleOutputsAndGrads ==
  /\ bpc = "differentiated"
  /\ \E grad_order \in IterationOrders(InternalOutputGradNames(
                           gradient_model_, training_graph_info_)) :
       TakeHandled(HandleOutputsAndGrads(gradient_model_, training_graph_info_,
                                         grad_order))
  /\ UNCHANGED <<model_, config_, builds, differentiated, model_istream,
                 input_shapes_ptr, model_str>>
  /\ UNCHANGED inits
  /\ UNCHANGED pass_vars

TakeReordered(r) ==
  /\ gradient_model_' = r.graph
  /\ training_graph_info_' = r.info
  /\ bstatus' = r.status
  /\ bpc' = IF r.status = "ok" THEN "built" ELSE "build_failed"

\* ReorderOutputs() and the return of Build (lines 85-87)
StepReorderOutputs ==
  /\ bpc = "handled"
  /\ TakeReordered(ReorderOutputs(gradient_model_, config_, training_graph_info_))
  /\ UNCHANGED <<model_, config_, builds, differentiated, model_istream,
                 input_shapes_ptr, model_str>>
  /\ UNCHANGED inits
  /\ UNCHANGED pass_vars

\* GetGradientModel() (lines 90-97) after a Build that returned or threw: the
\* serialized gradient_model_.
CallGetGradientModel ==
  /\ bpc \in {"built", "build_failed"}
  /\ ~model_str.returned
  /\ model_str' = GetGradientModel(gradient_model_)
  /\ UNCHANGED <<model_, gradient_model_, config_, training_graph_info_, bpc,
                 bstatus, builds, differentiated, model_istream,
                 input_shapes_ptr>>
  /\ UNCHANGED inits
  /\ UNCHANGED pass_vars

BuilderNext ==
  \/ CallInitialize
  \/ CallBuild
  \/ CallGetGradientModel
  \/ StepBuildGradientGraph
  \/ StepHandleOutputsAndGrads
  \/ StepReorderOutputs

SpecBuild == Init /\ [][BuilderNext]_vars

\* ------------------------------------------- builds of exported models
\* The forward model as an exporter writes it when the product is already a
\* FusedMatMul whose attributes all have their default values and are left
\* out:  t = Transpose(a), h = FusedMatMul(t, w), o1 = Relu(h),
\* o2 = Gemm(o1, b, v).
ExportedModel(inputs, outputs) ==
  LET g == ForwardModel(inputs, outputs, "h")
  IN [g EXCEPT !.nodes[2].op = "FusedMatMul", !.nodes[2].ver = 1]

ExportedModels ==
  {ExportedModel(i, o) :
     i \in {<<"a", "b">>, <<"a", "w", "b">>},
     o \in {<<"o1">>, <<"o1", "o2">>}}

\* Initialize(model_istream, config) on a forward model or an exported one.
CallInitializeExported ==
  /\ bpc \in {"new", "initialized", "init_failed", "built", "build_failed"}
  /\ inits < MaxInits
  /\ \E model \in ForwardModels \cup ExportedModels, config \in Configurations :
       /\ inits > 0 => model = model_istream /\ config = config_
       /\ model_istream' = model
       /\ TakeInitialize(config, Initialize(model, config, training_graph_info_))
  /\ inits' = inits + 1
  /\ UNCHANGED <<gradient_model_, builds, differentiated, input_shapes_ptr,
                 model_str>>
  /\ UNCHANGED pass_vars

PipelineNext ==
  \/ CallInitializeExported
  \/ CallBuild
  \/ CallGetGradientModel
  \/ StepBuildGradientGraph
  \/ StepHandleOutputsAndGrads
  \/ StepReorderOutputs

SpecPipeline == Init /\ [][PipelineNext]_vars

\* ------------------------------------------------------------------ claims
\* The loop of the pass is about to visit the snapshot node order[pos].
Visiting == pc = "visit" /\ pos <= Len(order) /\ order[pos] \in Live(graph)

\* The Transpose names exactly one input.
HasOneInput(g, n) == Len(g.nodes[n].ins) = 1

\* The permutation a Transpose applies: its perm attribute, else the reversed
\* axes of its input; it is known unless the attribute and the shape both lack.
PermKnown(g, n) ==
  \/ "perm" \in DOMAIN g.nodes[n].attrs
  \/ (g.nodes[n].ins # <<>> /\ g.args[g.nodes[n].ins[1]].rank # NoShape)

PermOf(g, n) ==
  IF "perm" \in DOMAIN g.nodes[n].attrs THEN g.nodes[n].attrs.perm
  ELSE [i \in 1..g.args[g.nodes[n].ins[1]].rank |->
          g.args[g.nodes[n].ins[1]].rank - i]

\* The permutation keeps every leading axis and swaps the last two.
SwapsLastTwoAxes(p) ==
  /\ Len(p) >= 2
  /\ \A i \in 1..Len(p) :
       p[i] = (CASE i = Len(p) - 1 -> Len(p) - 1
               [] i = Len(p) -> Len(p) - 2
               [] OTHER -> i - 1)

PermFusible(g, n) == PermKnown(g, n) /\ SwapsLastTwoAxes(PermOf(g, n))

\* A Transpose the pass may fold: of one input and of the last two axes, no
\* graph output.
FusibleTranspose(g, n) ==
  /\ g.nodes[n].op = "Transpose"
  /\ Range(g.nodes[n].outs) \cap g.outputs = {}
  /\ HasOneInput(g, n)
  /\ PermFusible(g, n)

\* The producers of v that are Transposes of no or several inputs and
\* produce no graph output: the search for a Transpose ends on them with
\* the failure of the enforce.
MalformedProducers(g, v) ==
  {t \in Producers(g, v) :
     /\ g.nodes[t].op = "Transpose"
     /\ Range(g.nodes[t].outs) \cap g.outputs = {}
     /\ ~HasOneInput(g, t)}

CastProducers(g, v) == {c \in Producers(g, v) : g.nodes[c].op = "Cast"}

\* The same, behind the Cast that produces v.
MalformedBehindCast(g, v) ==
  UNION {MalformedProducers(g, g.nodes[c].ins[1]) : c \in CastProducers(g, v)}

FusibleProducers(g, v) == {n \in Producers(g, v) : FusibleTranspose(g, n)}

SupportedMatMul(node) ==
  node.op = "MatMul" /\ node.ver \in {9, 13} /\ node.ep = "cpu"

Flag(b) == IF b THEN 1 ELSE 0

\* The traversal of the snapshot is over and the queued nodes are about to
\* be erased.
TraversalDone == pc = "visit" /\ pos > Len(order)

\* C1: a second run of the pass on the graph the first run produced changes
\* nothing (same nodes, same inputs and outputs, same attributes).
C1_Idempotent == (pc = "done" /\ rerun) => graph = entry.graph

\* C2: a transpose whose output is still consumed by a node the pass did
\* not fuse is never queued for removal: at the end of the traversal no
\* queued node has a live consumer.
C2_QueuedHaveNoConsumer ==
  TraversalDone =>
    \A i \in DOMAIN removed_nodes :
      removed_nodes[i] \in Live(graph) =>
        GetConsumerNodes(graph, graph.nodes[removed_nodes[i]].outs[1]) = {}

\* C3: a supported MatMul with an operand produced by a fusible Transpose is
\* replaced by exactly one FusedMatMul with the same output, the input of the
\* transpose for each matched operand and the original value for the other,
\* transA / transB telling which operand was matched and alpha 1; and a
\* fusible transpose whose only consumer was such a matmul is gone when the
\* pass returns.
C3_Step ==
  (/\ Visiting
   /\ SupportedMatMul(graph.nodes[order[pos]])
   /\ \/ FusibleProducers(graph, graph.nodes[order[pos]].ins[1]) # {}
      \/ FusibleProducers(graph, graph.nodes[order[pos]].ins[2]) # {})
  =>
   LET node == graph.nodes[order[pos]]
       L == FusibleProducers(graph, node.ins[1])
       R == FusibleProducers(graph, node.ins[2])
       new == Live(graph') \ Live(graph)
   IN /\ order[pos] \notin Live(graph')
      /\ Cardinality(new) = 1
      /\ Producers(graph', node.outs[1]) = new
      /\ \A f \in new :
           /\ graph'.nodes[f].op = "FusedMatMul"
           /\ graph'.nodes[f].outs = node.outs
           /\ graph'.nodes[f].ins[1] \in
                (IF L # {} THEN {graph.nodes[t].ins[1] : t \in L} ELSE {node.ins[1]})
           /\ graph'.nodes[f].ins[2] \in
                (IF R # {} THEN {graph.nodes[t].ins[1] : t \in R} ELSE {node.ins[2]})
           /\ graph'.nodes[f].attrs =
                [transA |-> Flag(L # {}), transB |-> Flag(R # {}), alpha |-> 1]

C3_NoTransposeLeft ==
  pc = "done" =>
    \A t \in Live(entry.graph) :
      (/\ FusibleTranspose(entry.graph, t)
       /\ \E m \in Live(entry.graph) :
            /\ SupportedMatMul(entry.graph.nodes[m])
            /\ GetConsumerNodes(entry.graph, entry.graph.nodes[t].outs[1]) = {m})
      => t \notin Live(graph)

C3_EndToEnd == [][C3_Step]_vars /\ []C3_NoTransposeLeft

\* Witness of C3: Transpose(perm [1,0]) -> MatMul has become one
\* FusedMatMul(transA 1, transB 0, alpha 1) and no Transpose is left.
C3_Witness ==
  /\ pc = "done"
  /\ ~rerun
  /\ Cardinality(Live(entry.graph)) = 2
  /\ \E t, m \in Live(entry.graph) :
       /\ entry.graph.nodes[t].op = "Transpose"
       /\ entry.graph.nodes[m].op = "MatMul"
       /\ entry.graph.nodes[m].ins = <<entry.graph.nodes[t].outs[1], "y">>
  /\ Cardinality(Live(graph)) = 1
  /\ \A f \in Live(graph) :
       /\ graph.nodes[f].op = "FusedMatMul"
       /\ graph.nodes[f].ins = <<"x", "y">>
       /\ graph.nodes[f].attrs = [transA |-> 1, transB |-> 0, alpha |-> 1]

\* C4: a Cast and the Transpose behind it are interchanged only when each
\* has exactly one output edge; otherwise the Cast stays, and a visit
\* without interchange adds no Cast or Transpose, removes no node but a
\* fused matmul, and leaves the graph as it was when nothing matched.
C4_Step ==
  Visiting =>
    /\ \A c \in Live(graph) :
         (graph.nodes[c].op = "Cast" /\ c \notin Live(graph')) =>
           /\ GetOutputEdgesCount(graph, c) = 1
           /\ \E t \in Producers(graph, graph.nodes[c].ins[1]) :
                /\ graph.nodes[t].op = "Transpose"
                /\ GetOutputEdgesCount(graph, t) = 1
                /\ t \notin Live(graph')
    /\ (\A c \in NodesOf(graph, {"Cast"}) : c \in Live(graph')) =>
         /\ \A n \in Live(graph') \ Live(graph) : graph'.nodes[n].op = "FusedMatMul"
         /\ Live(graph) \ Live(graph') \subseteq {order[pos]}
         /\ last'.kind \in {"skipped", "nomatch"} => graph' = graph

C4_FanOutGate == [][C4_Step]_vars

\* Witness of C4: the matmul visited last has a Cast producer with a fusible
\* Transpose behind it that has a second output edge, and nothing matched.
C4_Witness ==
  /\ pc = "visit"
  /\ last.kind = "nomatch"
  /\ last.tried # <<>>
  /\ graph = entry.graph
  /\ \E c \in NodesOf(graph, {"Cast"}) :
       /\ graph.nodes[c].outs[1] \in Range(graph.nodes[last.node].ins)
       /\ GetOutputEdgesCount(graph, c) = 1
       /\ \E t \in FusibleProducers(graph, graph.nodes[c].ins[1]) :
            GetOutputEdgesCount(graph, t) = 2

\* The operand at slot s of the visited node was matched directly by its
\* producer p in the step that is taken.
MatchedDirectly(s, p) == IF s = 1 THEN last'.left = p ELSE last'.right = p

\* C5 as stated: a producer Transpose of an operand of a visited matmul is
\* matched iff its permutation (the perm attribute, else the reversed axes of
\* the known rank) has rank >= 2, keeps the leading axes and swaps the last
\* two.
C5_PermOnly_Step ==
  (Visiting /\ IsFusionCandidate(graph.nodes[order[pos]])) =>
    \A s \in {1, 2} :
      \A p \in NodesOf(graph, {"Transpose"}) :
        graph.nodes[p].outs[1] = graph.nodes[order[pos]].ins[s] =>
          (MatchedDirectly(s, p) <=> PermFusible(graph, p))

C5_PermOnly == [][C5_PermOnly_Step]_vars

\* The search for the transposes of the visited matmul ended with the
\* failure of the enforce of GetTransposePerms in the step that is taken.
SearchThrew ==
  last'.kind = "enforce" /\ last'.left = Null /\ last'.right = Null

\* C5 amended: the producer Transpose is matched iff it names exactly one
\* input, produces no declared graph output and its permutation is as above;
\* a Transpose that is interchanged with a Cast satisfies the same test; and
\* when the search meets a Transpose of no or several inputs that produces no
\* graph output (as producer of an operand, or behind the Cast that produces
\* an operand when no operand was matched directly), it fails with the
\* enforce, nothing is matched and the graph and the modified flag are left
\* as they were; the search fails in no other case.
C5_Perm_Step ==
  (Visiting /\ IsFusionCandidate(graph.nodes[order[pos]])) =>
    LET a == graph.nodes[order[pos]].ins[1]
        b == graph.nodes[order[pos]].ins[2]
        direct == MalformedProducers(graph, a) \cup MalformedProducers(graph, b)
        unmatched == FusibleProducers(graph, a) \cup FusibleProducers(graph, b) = {}
    IN /\ \A s \in {1, 2} :
            \A p \in NodesOf(graph, {"Transpose"}) :
              graph.nodes[p].outs[1] = graph.nodes[order[pos]].ins[s] =>
                (MatchedDirectly(s, p) <=> FusibleTranspose(graph, p))
       /\ \A c \in NodesOf(graph, {"Cast"}) :
            c \notin Live(graph') =>
              \A t \in Producers(graph, graph.nodes[c].ins[1]) :
                FusibleTranspose(graph, t)
       /\ (\/ direct # {}
           \/ unmatched /\ MalformedBehindCast(graph, a) # {}
           \/ unmatched /\ CastProducers(graph, a) = {}
                /\ MalformedBehindCast(graph, b) # {})
             => SearchThrew
       /\ SearchThrew =>
            /\ direct \cup MalformedBehindCast(graph, a)
                  \cup MalformedBehindCast(graph, b) # {}
            /\ graph' = graph
            /\ modified' = modified
            /\ pc' = "failed"

C5_Perm == [][C5_Perm_Step]_vars

\* Witness of C5: a Transpose with perm [0,2,1] has just been folded into
\* the matmul it feeds.
C5_Witness ==
  /\ pc = "visit"
  /\ last.kind = "fused"
  /\ last.left # Null
  /\ last.left \in Live(graph)
  /\ graph.nodes[last.left].attrs = [perm |-> <<0, 2, 1>>]

\* C6: when the fused node is already a FusedMatMul, the new transA (transB)
\* is the XOR of the old transA (transB) with "a left (right) transpose was
\* matched", and alpha is the old alpha.
C6_Step ==
  (Visiting /\ graph.nodes[order[pos]].op = "FusedMatMul" /\ last'.kind = "fused") =>
    LET old == graph.nodes[order[pos]].attrs
        new == graph'.nodes[last'.fused].attrs
    IN /\ new.transA = (old.transA + Flag(last'.left # Null)) % 2
       /\ new.transB = (old.transB + Flag(last'.right # Null)) % 2
       /\ new.alpha = old.alpha

C6_FlagComposition == [][C6_Step]_vars

\* Witness of C6: a FusedMatMul with transA = 1 and alpha = 2 got a left
\* transpose folded in: the new node has transA = 0 and alpha = 2.
C6_Witness ==
  /\ pc = "visit"
  /\ last.kind = "fused"
  /\ last.left # Null
  /\ last.node \in Live(entry.graph)
  /\ entry.graph.nodes[last.node].op = "FusedMatMul"
  /\ entry.graph.nodes[last.node].attrs.transA = 1
  /\ entry.graph.nodes[last.node].attrs.alpha = 2
  /\ graph.nodes[last.fused].attrs.transA = 0
  /\ graph.nodes[last.fused].attrs.alpha = 2

\* C7: the flag is set exactly when the pass changed the graph: while the
\* graph is as on entry the flag has its entry value, and once the graph
\* differs the flag is true.
C7_Modified ==
  pc \in {"visit", "done"} =>
    IF graph = entry.graph THEN modified = entry.modified ELSE modified = TRUE

\* Witness of C7: a pass entered with the flag set found nothing to rewrite
\* and returned with the graph and the flag as they were.
C7_Witness ==
  /\ pc = "done"
  /\ graph = entry.graph
  /\ entry.modified
  /\ modified
  /\ last.kind = "nomatch"

\* The names whose gradient the configuration requests.
RequestedNames ==
  Range(config_.initializer_names_to_train) \cup Range(config_.input_names_require_grad)

\* C8: a missing gradient is never silently omitted: after a successful
\* Build the outputs of the backward graph contain the gradient of every
\* name of the trainable list and of every name of the list of inputs that
\* require a gradient.
C8_NoSilentOmission ==
  bpc = "built" =>
    \A name \in RequestedNames :
      GradientName(name) \in Range(GetOutputs(gradient_model_))

NewAddNodes(g, g2, grad) ==
  {n \in Live(g2) \ Live(g) :
     g2.nodes[n].op = "Add" /\ grad \in Range(g2.nodes[n].ins)}

\* The reconciliation of the internal gradient grad by the Add node add.
Reconciled(g, g2, grad, add) ==
  /\ Len(g2.nodes[add].ins) = 2
  /\ g2.nodes[add].ins[2] = grad
  /\ g2.nodes[add].ins[1] \notin DOMAIN g.args
  /\ g2.nodes[add].ins[1] \in DOMAIN g2.args
  /\ Producers(g2, grad) = Producers(g, grad)
  /\ \A c \in Live(g) : \A s \in DOMAIN g.nodes[c].ins :
       g.nodes[c].ins[s] = grad => g2.nodes[c].ins[s] = g2.nodes[add].outs[1]
  /\ g2.nodes[add].outs[1] \notin BackwardClosure(g2, Range(g2.nodes[add].ins))

\* C10: for every declared output whose gradient is also produced by a node
\* of the gradient graph, HandleOutputsAndGrads adds exactly one Add node
\* whose inputs are a new external seed and the internal gradient; every
\* node that consumed the internal gradient consumes the result of the Add
\* instead, the Add keeps consuming the internal gradient, and the result of
\* the Add is no ancestor of its inputs (no cycle).
C10_Step ==
  bpc = "differentiated" =>
    \A y \in Range(training_graph_info_.user_output_names) :
      Producers(gradient_model_, GradientName(y)) # {} =>
        /\ Cardinality(NewAddNodes(gradient_model_, gradient_model_', GradientName(y))) = 1
        /\ \A add \in NewAddNodes(gradient_model_, gradient_model_', GradientName(y)) :
             Reconciled(gradient_model_, gradient_model_', GradientName(y), add)

C10_Reconciliation == [][C10_Step]_vars

\* Witness of C10: HandleOutputsAndGrads returned a graph in which an Add
\* node sums an external seed and the internal gradient of a declared
\* output, and a node that is not the Add consumes the sum.
C10_Witness ==
  /\ bpc = "handled"
  /\ \E add \in Live(gradient_model_) :
       /\ gradient_model_.nodes[add].op = "Add"
       /\ \E y \in Range(training_graph_info_.user_output_names) :
            /\ gradient_model_.nodes[add].ins[2] = GradientName(y)
            /\ Producers(differentiated, GradientName(y)) # {}
       /\ \E c \in Live(differentiated) :
            gradient_model_.nodes[add].outs[1] \in Range(gradient_model_.nodes[c].ins)

\* The places of the graph inputs of the model handed to Initialize that are
\* no trainable parameters.
KeptInputPlaces ==
  {i \in DOMAIN model_istream.inputs :
     model_istream.inputs[i] \notin Range(config_.initializer_names_to_train)}

\* C11: after a successful Initialize the graph inputs of the saved model are
\* the original graph inputs that are no trainable parameters, in their
\* original order, followed by the trainable parameters in the order of the
\* configuration, and no trainable parameter is an initializer any more.
C11_InitializerPromotion ==
  bpc \notin {"new", "init_failed"} =>
    /\ Len(model_.inputs) =
         Cardinality(KeptInputPlaces) + Len(config_.initializer_names_to_train)
    /\ \A i \in KeptInputPlaces :
         model_.inputs[Cardinality({j \in KeptInputPlaces : j < i}) + 1]
           = model_istream.inputs[i]
    /\ \A j \in DOMAIN config_.initializer_names_to_train :
         model_.inputs[Cardinality(KeptInputPlaces) + j]
           = config_.initializer_names_to_train[j]
    /\ model_.initializers \cap Range(config_.initializer_names_to_train) = {}

\* The gradient model and the info that the reconciliation and the
\* reordering give from the differentiated graph d and the info as Initialize
\* left it, walking the gradients made inside the graph in the order
\* grad_order.  [graph, info, ok]
FreshHandled(d, config, info0, grad_order) ==
  LET h == HandleOutputsAndGrads(d, info0, grad_order)
      r == ReorderOutputs(h.graph, config, h.info)
  IN IF h.status # "ok" THEN [graph |-> h.graph, info |-> h.info, ok |-> FALSE]
     ELSE [graph |-> r.graph, info |-> r.info, ok |-> r.status = "ok"]

\* result is an outcome of a Build on a builder that has only been
\* initialized: what the steps of Build give from the saved model, the
\* configuration, the info as Initialize left it and the shapes of the call,
\* for some order in which the gradient graph builder walks x_node_arg_names
\* and some order in which HandleOutputsAndGrads walks the gradients made
\* inside the graph.
FreshBuild(model, config, info0, shapes, result) ==
  LET c == IF shapes.given
             THEN SetConcreteInputShapes(model, info0, shapes.shapes)
           ELSE [graph |-> model, status |-> "ok"]
      t == ApplyTransformers(Resolve(c.graph))
      x == XNodeArgNames(config)
      g1 == AddGradientGraph(t.graph, Range(info0.user_output_names), x)
  IN /\ c.status = "ok"
     /\ t.status = "ok"
     /\ \E x_order \in IterationOrders(x), strict \in BOOLEAN :
          LET d == GradientGraphBuilder_Build(t.graph, g1, x, x_order, strict)
          IN /\ d.status = "ok"
             /\ \E grad_order \in IterationOrders(
                                      InternalOutputGradNames(d.graph, info0)) :
                  result = FreshHandled(d.graph, config, info0, grad_order)

\* No call other than Initialize changes the saved forward model.
C12_SavedModelKept == inits' = inits => model_' = model_

\* The info of the builder as the last Initialize left it: the lists that a
\* Build fills are empty.
InitializedInfo ==
  [training_graph_info_ EXCEPT
     !.initializer_grad_names_to_train = <<>>,
     !.user_input_grad_names = NoNames,
     !.output_grad_indices_require_full_shape = <<>>]

\* The result of a successful Build is the result of a Build on a builder
\* that has only been initialized, with the same shapes; on a builder that
\* was initialized once the info it starts from is the one that Initialize
\* gives a new builder.
C12_FreshResult ==
  bpc = "built" =>
    /\ FreshBuild(model_, config_, InitializedInfo, input_shapes_ptr,
                  [graph |-> gradient_model_, info |-> training_graph_info_,
                   ok |-> TRUE])
    /\ inits = 1 =>
         InitializedInfo
           = Initialize(model_istream, config_, NoTrainingGraphInfo).info

\* C12: every Build works on a copy of the forward model that Initialize
\* saved and no Build changes the saved model, whether it succeeds or fails;
\* the gradient model and the info of a successful Build are those of a
\* first Build with the same saved model, configuration and shapes, whatever
\* the builds before.
C12_BuildIsolation == [][C12_SavedModelKept]_vars /\ []C12_FreshResult

\* Witness of C12: a second Build, with shapes, succeeded on the builder.
C12_Witness ==
  /\ bpc = "built"
  /\ builds = 2
  /\ input_shapes_ptr.given
  /\ gradient_model_ # model_

\* The last Build failed in ReorderOutputs: a requested gradient is not
\* among the outputs of the differentiated graph.
MissingGradientFailure ==
  /\ bpc = "build_failed"
  /\ bstatus \in {"missing_input_grad", "missing_initializer_grad"}

\* C13: after a Build that failed for a missing gradient no gradient graph
\* is obtained from the builder: GetGradientModel does not return the graph
\* that the failed Build assembled in part.
C13_NoPartialResult ==
  (MissingGradientFailure /\ model_str.returned) => model_str.graph = NoGraph

\* The live nodes that the erasure of n would leave without a producer of
\* one of their inputs.
Orphaned(g, n) ==
  {m \in Live(g) \ {n} :
     \E v \in Range(g.nodes[n].outs) \cap Range(g.nodes[m].ins) :
       Producers(g, v) = {n}}

\* The erasures that the loop over the queued nodes performs from the graph
\* g on, up to the first one that Graph::RemoveNode refuses, happen on nodes
\* without an output edge and without a consumer.
RECURSIVE DeferredErasesClean(_, _)
DeferredErasesClean(g, removed) ==
  IF removed = <<>> THEN TRUE
  ELSE IF Head(removed) \notin Live(g)
    THEN DeferredErasesClean(g, Tail(removed))
  ELSE IF ~CanRemoveNode(g, Head(removed)) THEN TRUE
  ELSE /\ Orphaned(g, Head(removed)) = {}
       /\ DeferredErasesClean(RemoveNode(g, Head(removed)), Tail(removed))

\* C14: every erasure that the pass performs (of the Cast and the Transpose
\* of an interchange, of the queued transposes after the traversal) happens
\* on a node without a live output edge: no live node still consumes a value
\* that only the erased node produces.
C14_RemovalPrecondition ==
  /\ \A i \in DOMAIN last.erased : last.erased[i].edges = 0
  /\ TraversalDone => DeferredErasesClean(graph, removed_nodes)

\* C15: every declared graph output that a node produced when the pass was
\* entered is produced by exactly one node when the pass has returned; no
\* transpose that produces a declared graph output is erased, the new
\* transpose of an interchange included.
C15_OutputsKeepProducer ==
  pc = "done" =>
    \A v \in entry.graph.outputs :
      Producers(entry.graph, v) # {} => Cardinality(Producers(graph, v)) = 1

\* C16: a node is erased at most once in a pass: when the traversal has
\* finished no index is twice in the list of deferred removals, and every
\* index of the list names a node that no interchange has erased already.
C16_ErasedAtMostOnce ==
  TraversalDone =>
    /\ \A i, j \in DOMAIN removed_nodes :
         removed_nodes[i] = removed_nodes[j] => i = j
    /\ \A i \in DOMAIN removed_nodes : removed_nodes[i] \in Live(graph)

\* The node n is in the graph g: the lookup by its index succeeds and n is
\* the producer of each of its outputs.
StillInGraph(g, n) ==
  /\ n \in Live(g)
  /\ \A v \in Range(g.nodes[n].outs) : GetProducerNode(g, v) = n

\* C17: the erasure of a queued transpose is deferred: as long as the
\* traversal of the snapshot goes on, every queued node is in the graph
\* (found by its index and as the producer of its output) and the snapshot
\* node about to be visited is live; when the pass has returned, every
\* queued node has been erased.
C17_DeferredErase ==
  /\ pc = "visit" =>
       /\ \A i \in DOMAIN removed_nodes : StillInGraph(graph, removed_nodes[i])
       /\ pos <= Len(order) => order[pos] \in Live(graph)
  /\ pc = "done" =>
       \A i \in DOMAIN removed_nodes : removed_nodes[i] \notin Live(graph)

\* In the graph g the sequence seq lists every node once, each producer
\* before the nodes that consume what it produces.
IsTopologicalOrderOf(g, seq) ==
  /\ Range(seq) = Live(g)
  /\ \A i, j \in DOMAIN seq : seq[i] = seq[j] => i = j
  /\ \A i, j \in DOMAIN seq :
       (\E v \in Range(g.nodes[seq[j]].ins) : seq[i] \in Producers(g, v)) => i < j

\* The list the pass iterates is, when the walk starts, the topological
\* order of the graph the pass was entered with.
C18_SnapshotTaken ==
  (pc = "visit" /\ pos = 1) =>
    /\ order = GetNodesInTopologicalOrder(entry.graph)
    /\ IsTopologicalOrderOf(entry.graph, order)

\* No step of the walk, whatever it removes or inserts, changes the list.
C18_SnapshotKept ==
  pc = "visit" => order' = order /\ entry'.graph = entry.graph

\* The k-th visit is of the k-th node of the list, a node of the graph at
\* entry; a pass that returns has visited the whole list.
C18_VisitedInOrder ==
  pc \in {"visit", "done", "failed"} =>
    /\ pos \in 1..(Len(order) + 1)
    /\ pos > 1 => last.node = order[pos - 1] /\ last.node \in Live(entry.graph)
    /\ pc = "done" => pos = Len(order) + 1

\* C18: the pass walks the topological order of the graph it was entered
\* with: the list it iterates is that order whatever it has removed or
\* inserted since, the k-th node it visits is the k-th node of that order
\* (so no node created during the pass is visited), and a pass that returns
\* has visited every node of the order once.
C18_SnapshotTraversal ==
  [][C18_SnapshotKept]_vars /\ [](C18_SnapshotTaken /\ C18_VisitedInOrder)

\* A snapshot node was visited after an earlier visit had put a new node in
\* the graph and further snapshot nodes were still to come.
C18_Witness ==
  /\ pc = "visit"
  /\ pos > 1
  /\ pos <= Len(order)
  /\ last.kind \in {"skipped", "nomatch"}
  /\ last.node = order[pos - 1]
  /\ \E n \in Live(graph) : n \notin Live(entry.graph)

\* C19: the remaining-consumer count of a value never underflows: no count
\* of the pass is decremented from zero, so no count holds the residue of
\* a value beyond the number of consumers read at the first query.
C19_NoUnderflow ==
  \A v \in DOMAIN consumer_count : consumer_count[v] >= 0

\* The producer of the value v in g is a Cast node.
CastProduced(g, v) ==
  GetProducerNode(g, v) # Null /\ g.nodes[GetProducerNode(g, v)].op = "Cast"

\* The attempts that the visit of the candidate node, with the direct
\* matches dl and dr of its operands in the graph g, has logged in info.
AttemptsInOrder(g, node, dl, dr, info) ==
  /\ (dl # Null \/ dr # Null) =>
       /\ info.tried = <<>>
       /\ info.erased = <<>>
       /\ info.left = dl
       /\ info.right = dr
  /\ (dl = Null /\ dr = Null) =>
       /\ info.tried \in {<<>>, <<"left">>, <<"right">>, <<"left", "right">>}
       /\ ("left" \in Range(info.tried)) = CastProduced(g, node.ins[1])
       /\ "right" \in Range(info.tried) =>
            info.left = Null /\ CastProduced(g, node.ins[2])
       /\ (info.left = Null /\ CastProduced(g, node.ins[2])) =>
            "right" \in Range(info.tried)
       /\ info.left = Null \/ info.right = Null
  /\ Len(info.erased) \in {0, 2}
  /\ Len(info.erased) = 2 <=> (info.tried # <<>> /\ info.kind # "nomatch")

\* One iteration of the loop, seen from the graph before it.
C20_Step ==
  (pc = "visit" /\ pos <= Len(order) /\ pos' = pos + 1) =>
    IF IsFusionCandidate(graph.nodes[order[pos]])
      THEN AttemptsInOrder(graph, graph.nodes[order[pos]],
                           GetTransposeNodeFromOutput(graph, graph.nodes[order[pos]].ins[1]),
                           GetTransposeNodeFromOutput(graph, graph.nodes[order[pos]].ins[2]),
                           last')
    ELSE last'.tried = <<>> /\ last'.erased = <<>>

\* C20: for a visited matmul the direct transpose match of both operands
\* comes first and is taken when either operand matches; only when neither
\* matches is the interchange attempted, on the Cast that produces the left
\* operand first and on the Cast that produces the right operand only if
\* the left attempt gave no transpose; at most one interchange (one erased
\* Cast and one erased Transpose) is performed per visited node.
C20_AttemptOrder == [][C20_Step]_vars

\* Neither operand matched directly, the attempt on the left Cast gave no
\* transpose and the attempt on the right Cast performed the interchange.
C20_Witness ==
  /\ last.kind = "fused"
  /\ last.tried = <<"left", "right">>
  /\ last.left = Null
  /\ last.right # Null
  /\ Len(last.erased) = 2

\* What an interchange of the Cast cast and the Transpose transpose of the
\* graph g has left in the graph h: the new Cast (index g.next) between the
\* input of the Transpose and a new value, the new Transpose (g.next + 1)
\* between that value and the output of the Cast, the two originals gone.
InterchangeResult(g, h, cast, transpose) ==
  LET cast_output == g.nodes[cast].outs[1]
      transpose_input == g.nodes[transpose].ins[1]
      new_value == cast_output \o "_transformed"
  IN /\ {g.next, g.next + 1} \subseteq Live(h)
     /\ h.nodes[g.next].op = "Cast"
     /\ h.nodes[g.next].attrs = g.nodes[cast].attrs
     /\ h.nodes[g.next].ins = <<transpose_input>>
     /\ h.nodes[g.next].outs = <<new_value>>
     /\ new_value \notin DOMAIN g.args
     /\ h.args[new_value] = [rank |-> g.args[transpose_input].rank,
                             elem |-> g.args[cast_output].elem]
     /\ h.nodes[g.next + 1].op = "Transpose"
     /\ h.nodes[g.next + 1].attrs = g.nodes[transpose].attrs
     /\ h.nodes[g.next + 1].ins = <<new_value>>
     /\ h.nodes[g.next + 1].outs = <<cast_output>>
     /\ {cast, transpose} \cap Live(h) = {}
     /\ \A e \in h.edges : {e[1], e[2]} \cap {cast, transpose} = {}

\* An iteration that performed an interchange leaves its result, whether
\* the fusion of the matmul that followed succeeded or not.
C21_Step ==
  (pc = "visit" /\ pos <= Len(order) /\ pos' = pos + 1 /\ last'.erased # <<>>) =>
    /\ Len(last'.erased) = 2
    /\ \A i \in 1..2 : last'.erased[i].node \in Live(graph) /\ last'.erased[i].edges = 0
    /\ graph.nodes[last'.erased[1].node].op = "Cast"
    /\ graph.nodes[last'.erased[2].node].op = "Transpose"
    /\ InterchangeResult(graph, graph', last'.erased[1].node, last'.erased[2].node)

\* C21: an interchange puts a new Cast between the input of the original
\* Transpose and a new value that has the shape of that input and the
\* element type of the output of the original Cast, and a new Transpose with
\* the attributes of the original between the new value and the output of
\* the original Cast; the original Cast and Transpose are detached and
\* erased in the same iteration, before the matmul is fused.
C21_InterchangeResult == [][C21_Step]_vars

\* Every value of the graph g has at most one live producer.
SingleProducer(g) ==
  \A v \in DOMAIN g.args : Cardinality(Producers(g, v)) <= 1

\* C22: after every iteration of the pass that completed (an interchange, a
\* fusion, or neither) and when the pass has returned, every value has at
\* most one live producing node.
C22_SingleProducer ==
  pc \in {"visit", "done"} => SingleProducer(graph)

\* The nodes of the set among that read no value produced by a node of among.
SourcesAmong(g, among) ==
  {n \in among :
     \A v \in Range(g.nodes[n].ins) : Producers(g, v) \cap among = {}}

\* No node of the set among depends on itself through the values it reads.
RECURSIVE AcyclicAmong(_, _)
AcyclicAmong(g, among) ==
  IF among = {} THEN TRUE
  ELSE IF SourcesAmong(g, among) = {} THEN FALSE
  ELSE AcyclicAmong(g, among \ SourcesAmong(g, among))

Acyclic(g) == AcyclicAmong(g, Live(g))

\* C23: a pass entered with an acyclic graph leaves the graph acyclic after
\* every iteration (each interchange and each fusion) and after the
\* erasures that end the pass.
C23_Acyclic ==
  (pc \in {"visit", "done"} /\ Acyclic(entry.graph)) => Acyclic(graph)

\* The iteration on a supported matmul node with fewer than two inputs ends
\* the pass with an error and has rewritten nothing.
C24_Step ==
  (pc = "visit" /\ pos <= Len(order) /\ pos' = pos + 1
   /\ ShortCandidate(graph, order[pos])) =>
     /\ pc' = "failed"
     /\ graph' = graph
     /\ removed_nodes' = removed_nodes

\* C24: when the pass visits a supported matmul node that has fewer than
\* two inputs it aborts with a fatal error; it neither rewrites the graph
\* nor goes on with an operand that the node does not have.
C24_StructuralPrecondition == [][C24_Step]_vars

\* The attributes of the fused nodes that the iteration on the node original
\* of the graph g has put in the graph h.
FusedNodesScaled(g, h, original) ==
  \A n \in Live(h) \ Live(g) :
    h.nodes[n].op = "FusedMatMul" =>
      /\ {"transA", "transB", "alpha"} \subseteq DOMAIN h.nodes[n].attrs
      /\ h.nodes[n].attrs.alpha = IF "alpha" \in DOMAIN original.attrs
                                    THEN original.attrs.alpha
                                  ELSE 1

C25_Step ==
  (pc = "visit" /\ pos <= Len(order) /\ pos' = pos + 1) =>
    FusedNodesScaled(graph, graph', graph.nodes[order[pos]])

\* C25: every fused node that the pass creates carries transA, transB and
\* alpha; alpha is that of the node it replaces when that node has the
\* attribute and 1.0 otherwise, whether the replaced node is a MatMul or a
\* FusedMatMul.
C25_ScaleAttribute == [][C25_Step]_vars

\* The gradient of the user output name is produced by no node of the graph
\* that the differentiation left: the seed gradient is used as it is.
SeedUsedDirectly(g, name) == Producers(g, GradientName(name)) = {}

\* C26: after HandleOutputsAndGrads the list of the output indices that
\* require a full-shape seed gradient holds the index i exactly when no node
\* of the gradient graph produces the gradient of user output i, in
\* increasing order; the YieldOp node carries the same list as its
\* full_shape_outputs attribute; every Build makes the list anew.
C26_FullShapeTracking ==
  bpc = "handled" =>
    LET names == training_graph_info_.user_output_names
        list == training_graph_info_.output_grad_indices_require_full_shape
    IN /\ \A i \in DOMAIN names :
            (i - 1 \in Range(list)) <=> SeedUsedDirectly(differentiated, names[i])
       /\ Range(list) \subseteq 0..(Len(names) - 1)
       /\ \A j, k \in DOMAIN list : j < k => list[j] < list[k]
       /\ \A n \in Live(gradient_model_) :
            gradient_model_.nodes[n].op = "YieldOp" =>
              gradient_model_.nodes[n].attrs.full_shape_outputs = list

\* The second Build of a builder has handled two user outputs, one with a
\* gradient made inside the graph and one whose seed is used directly.
C26_Witness ==
  /\ bpc = "handled"
  /\ builds = 2
  /\ Len(training_graph_info_.user_output_names) = 2
  /\ Len(training_graph_info_.output_grad_indices_require_full_shape) = 1
  /\ \E n \in Live(gradient_model_) : gradient_model_.nodes[n].op = "YieldOp"

YieldNodes(g) == {n \in Live(g) : g.nodes[n].op = "YieldOp"}

\* The value v is the seed that the YieldOp node hands out for the user
\* output name: the first input of the Add node that sums it with the
\* gradient made inside the graph d, or the gradient itself if d makes none.
IsSeedOf(g, d, v, name) ==
  IF SeedUsedDirectly(d, name) THEN v = GradientName(name)
  ELSE \E a \in Live(g) :
         /\ g.nodes[a].op = "Add"
         /\ g.nodes[a].ins = <<v, GradientName(name)>>

\* C27: a Build that returns has appended exactly one YieldOp node; its
\* inputs are the user outputs in their declared order, and its outputs are,
\* position by position, values of the graph: the external seed that the Add
\* node of the output consumes when the gradient of the output is made
\* inside the graph, and the gradient of the output otherwise.
C27_BoundaryNode ==
  bpc = "built" =>
    LET names == training_graph_info_.user_output_names
        g == gradient_model_
    IN /\ Cardinality(YieldNodes(g)) = 1
       /\ YieldNodes(differentiated) = {}
       /\ \A n \in YieldNodes(g) :
            /\ g.nodes[n].ins = names
            /\ Len(g.nodes[n].outs) = Len(names)
            /\ \A i \in DOMAIN names :
                 /\ g.nodes[n].outs[i] \in DOMAIN g.args
                 /\ IsSeedOf(g, differentiated, g.nodes[n].outs[i], names[i])

\* The supplied shapes of the Build under way, and the names they are for.
SuppliedShapes == input_shapes_ptr.shapes

\* The positions of the builder within and after a Build.
BuildPositions ==
  {"copied", "differentiated", "handled", "crashed", "built", "build_failed"}

ShapesMatchUserInputs ==
  Len(SuppliedShapes) = Len(training_graph_info_.user_input_names)

\* C28: shape specialization changes shapes only.  When as many shapes are
\* supplied as there are user inputs, the graph that SetConcreteInputShapes
\* leaves has the i-th supplied shape as the declared shape of the i-th user
\* input, the input list of the saved model (the user inputs followed by the
\* trainable parameters), every other value (the trainable parameters
\* included) as the saved model declares it, and the nodes, outputs and
\* initializers of the saved model; with another number of shapes the Build
\* ends in the fatal error.
C28_ShapesOnly ==
  (bpc \in BuildPositions /\ input_shapes_ptr.given) =>
    LET names == training_graph_info_.user_input_names
        train == training_graph_info_.initializer_names_to_train
    IN IF ShapesMatchUserInputs
         THEN bpc = "copied" =>
                /\ \A i \in DOMAIN names :
                     gradient_model_.args[names[i]] =
                       [model_.args[names[i]] EXCEPT
                          !.rank = Len(SuppliedShapes[i]),
                          !.dims = SuppliedShapes[i]]
                /\ gradient_model_.inputs = model_.inputs
                /\ gradient_model_.inputs = names \o train
                /\ \A n \in DOMAIN model_.args \ Range(names) :
                     gradient_model_.args[n] = model_.args[n]
                /\ [gradient_model_ EXCEPT !.args = model_.args] = model_
       ELSE bpc = "build_failed" /\ bstatus = "shape_mismatch"

\* SetConcreteInputShapes has given a user input of a model with a trainable
\* parameter a shape that the saved model does not declare.
C28_Witness ==
  /\ bpc = "copied"
  /\ input_shapes_ptr.given
  /\ ShapesMatchUserInputs
  /\ training_graph_info_.initializer_names_to_train # <<>>
  /\ \E n \in Range(training_graph_info_.user_input_names) :
       gradient_model_.args[n].dims # model_.args[n].dims

\* The positions of the builder that one step may follow by another: a Build
\* starts with the copy (and the shapes), then come the transformers with the
\* differentiation, the reconciliation and the reordering; between two Builds
\* Initialize may be called again.
PipelineOrder ==
  {<<"new", "initialized">>, <<"new", "init_failed">>,
   <<"initialized", "copied">>, <<"initialized", "build_failed">>,
   <<"built", "copied">>, <<"built", "build_failed">>,
   <<"build_failed", "copied">>,
   <<"copied", "differentiated">>, <<"copied", "build_failed">>,
   <<"differentiated", "handled">>, <<"differentiated", "crashed">>,
   <<"handled", "built">>, <<"handled", "build_failed">>}
    \cup ({"initialized", "init_failed", "built", "build_failed"}
            \X {"initialized", "init_failed"})

DifferentiationErrors == {"UnsupportedOperator", "NoGradientPath", "NodeArgNotFound"}

\* The step has run neither the reconciliation nor the reordering.
NotReconciled ==
  /\ YieldNodes(gradient_model_') = {}
  /\ GetOutputs(gradient_model_') = GetOutputs(gradient_model_)
  /\ training_graph_info_' = training_graph_info_

\* The graph after the step is the outcome of the gradient graph builder on
\* the optimized graph opt.
DifferentiatedFrom(opt) ==
  LET x == XNodeArgNames(config_)
      y == Range(training_graph_info_.user_output_names)
      with_gradients == AddGradientGraph(opt, y, x)
  IN \E x_order \in IterationOrders(x), strict \in BOOLEAN :
       [graph |-> gradient_model_', status |-> "ok"] =
         GradientGraphBuilder_Build(opt, with_gradients, x, x_order, strict)

C29_AfterCopy(t) ==
  IF t.status # "ok"
    THEN /\ bpc' = "build_failed"
         /\ bstatus' = "transformer_error"
         /\ NotReconciled
  ELSE \/ /\ bpc' = "differentiated"
          /\ bstatus' = "ok"
          /\ DifferentiatedFrom(t.graph)
       \/ /\ bpc' = "build_failed"
          /\ bstatus' \in DifferentiationErrors
          /\ NotReconciled

C29_Step ==
  /\ bpc' # bpc => <<bpc, bpc'>> \in PipelineOrder
  /\ bpc' = "copied" =>
       gradient_model_' =
         IF input_shapes_ptr'.given
           THEN SetConcreteInputShapes(model_, training_graph_info_,
                                       input_shapes_ptr'.shapes).graph
         ELSE model_
  /\ bpc = "copied" => C29_AfterCopy(ApplyTransformers(Resolve(gradient_model_)))
  /\ YieldNodes(gradient_model_') # {} /\ YieldNodes(gradient_model_) = {}
       => bpc = "differentiated"
  /\ bpc' = "built" /\ bpc # "built" =>
       bpc = "handled" /\ YieldNodes(gradient_model_) # {}

\* C29: within one Build the steps run in the order copy, shapes, forward
\* optimization, differentiation, reconciliation, reordering; the gradient
\* graph builder works on the graph the transformers left, and a Build whose
\* transformers or gradient graph builder fail ends with that error, with no
\* YieldOp node added, the graph outputs not reordered and the training graph
\* info untouched.
C29_PipelineOrder == [][C29_Step]_vars

\* A Build has returned a gradient graph whose forward part is the fused one:
\* the FusedMatMul of the transformers is there and the MatMul is gone.
C29_Witness ==
  /\ bpc = "built"
  /\ YieldNodes(gradient_model_) # {}
  /\ \E n \in Live(gradient_model_) : gradient_model_.nodes[n].op = "FusedMatMul"
  /\ \A n \in Live(gradient_model_) : gradient_model_.nodes[n].op # "MatMul"
  /\ \E n \in Live(model_) : model_.nodes[n].op = "MatMul"

====
